---------------------------- MODULE Spec2Model ----------------------------
(***************************************************************************)
(* Space accounting and bucket marking of bcachefs (fs/bcachefs/buckets.c). *)
(*                                                                         *)
(* One module, several specifications over the same variables; each       *)
(* specification exercises one component and leaves the variables of the   *)
(* other components at their idle values:                                  *)
(*   SpecCas   concurrent bch2_mark_pointer on one bucket (cmpxchg loop)   *)
(***************************************************************************)
EXTENDS Integers, Sequences, FiniteSets, TLC

(***************************************************************************)
(* Integer helpers.                                                        *)
(***************************************************************************)
Min(a, b) == IF a <= b THEN a ELSE b
Max(a, b) == IF a >= b THEN a ELSE b
Abs(a) == IF a < 0 THEN -a ELSE a

RECURSIVE SumOver(_, _)
SumOver(S, f) ==
    IF S = {} THEN 0
    ELSE LET x == CHOOSE y \in S : TRUE IN f[x] + SumOver(S \ {x}, f)

(***************************************************************************)
(* Widths of the C types involved.                                         *)
(***************************************************************************)
U16_MAX == 65535
TwoPow16 == 65536

\* (u16) x
TruncU16(x) == x % TwoPow16

\* (unsigned) x > U16_MAX for an s64 x with |x| < 2^31 (every sum the model
\* forms): a negative x converts to x + 2^32, which is above U16_MAX.
unsigned_sum_never_checked(x) == FALSE

UnsignedAboveU16Max(x) == x < 0 \/ x > U16_MAX

(***************************************************************************)
(* enum bch_data_type; BCH_DATA_none is the value 0 that the code tests    *)
(* with "if (data_type)".                                                  *)
(***************************************************************************)
BCH_DATA_none == "none"
BCH_DATA_sb == "sb"
BCH_DATA_journal == "journal"
BCH_DATA_btree == "btree"
BCH_DATA_user == "user"
BCH_DATA_cached == "cached"
BCH_DATA_parity == "parity"
DataTypes == {BCH_DATA_none, BCH_DATA_sb, BCH_DATA_journal, BCH_DATA_btree,
              BCH_DATA_user, BCH_DATA_cached, BCH_DATA_parity}

(***************************************************************************)
(* u8 generation numbers: gen_cmp(a, b) is (s8) (a - b), gen_after(a, b)   *)
(* is max(0, gen_cmp(a, b)).                                               *)
(***************************************************************************)
BUCKET_GC_GEN_MAX == 96

gen_cmp(a, b) ==
    LET d == (a - b) % 256 IN IF d >= 128 THEN d - 256 ELSE d

gen_after(a, b) == Max(0, gen_cmp(a, b))

(***************************************************************************)
(* struct bucket_mark: the fields of the packed 64-bit word that the       *)
(* marking code reads and writes.                                          *)
(***************************************************************************)
BucketMark(gen, data_type, dirty, cached, jvalid, jseq) ==
    [gen |-> gen, data_type |-> data_type,
     dirty_sectors |-> dirty, cached_sectors |-> cached,
     journal_seq_valid |-> jvalid, journal_seq |-> jseq, stripe |-> 0]

ZeroMark == BucketMark(0, BCH_DATA_none, 0, 0, 0, 0)

(***************************************************************************)
(* check_bucket_ref: 0 (ok), 1 (stale cached pointer) or -EIO.             *)
(*   ptr is [gen, cached]; sectors is the s64 delta.                       *)
(***************************************************************************)
EIO == -5

\* gen_cmp(bucket_gen, ptr->gen) > BUCKET_GC_GEN_MAX
ptr_never_too_stale(bucket_gen, ptr_gen) == FALSE

ptr_too_stale(bucket_gen, ptr_gen) ==
    gen_cmp(bucket_gen, ptr_gen) > BUCKET_GC_GEN_MAX

\* bucket_gen != ptr->gen
ptr_never_stale(bucket_gen, ptr_gen) == FALSE

ptr_stale(bucket_gen, ptr_gen) == bucket_gen # ptr_gen

\* bucket_data_type && ptr_data_type && bucket_data_type != ptr_data_type
data_types_never_differ(bucket_data_type, ptr_data_type) == FALSE

data_types_differ(bucket_data_type, ptr_data_type) ==
    /\ bucket_data_type # BCH_DATA_none
    /\ ptr_data_type # BCH_DATA_none
    /\ bucket_data_type # ptr_data_type

check_bucket_ref(ptr, sectors, ptr_data_type, bucket_gen, bucket_data_type, dirty_sectors, cached_sectors) ==
    LET bucket_sectors == IF ~ptr.cached THEN dirty_sectors ELSE cached_sectors
    IN  IF gen_after(ptr.gen, bucket_gen) # 0 THEN EIO
        ELSE IF ptr_too_stale(bucket_gen, ptr.gen) THEN EIO
        ELSE IF ptr_stale(bucket_gen, ptr.gen) /\ ~ptr.cached THEN EIO
        ELSE IF ptr_stale(bucket_gen, ptr.gen) THEN 1
        ELSE IF data_types_differ(bucket_data_type, ptr_data_type) THEN EIO
        ELSE IF UnsignedAboveU16Max(bucket_sectors + sectors) THEN EIO
        ELSE 0

(***************************************************************************)
(* __mark_pointer: validates, then adds the delta to the dirty or cached   *)
(* count (a u16 store) and recomputes the data type.  Returns the return   *)
(* code and the three values written through the out-pointers.             *)
(***************************************************************************)
mark_pointer_data_type_kept(dirty_sectors, cached_sectors, ptr_data_type) ==
    ptr_data_type

mark_pointer_data_type(dirty_sectors, cached_sectors, ptr_data_type) ==
    IF dirty_sectors # 0 \/ cached_sectors # 0 THEN ptr_data_type
    ELSE BCH_DATA_none

__mark_pointer(ptr, sectors, ptr_data_type, bucket_gen, bucket_data_type, dirty_sectors, cached_sectors) ==
    LET ret == check_bucket_ref(ptr, sectors, ptr_data_type, bucket_gen,
                                bucket_data_type, dirty_sectors, cached_sectors)
        d == IF ~ptr.cached THEN TruncU16(dirty_sectors + sectors)
             ELSE dirty_sectors
        c == IF ptr.cached THEN TruncU16(cached_sectors + sectors)
             ELSE cached_sectors
    IN  IF ret # 0
        THEN [ret |-> ret, data_type |-> bucket_data_type,
              dirty_sectors |-> dirty_sectors, cached_sectors |-> cached_sectors]
        ELSE [ret |-> 0,
              data_type |-> mark_pointer_data_type(d, c, ptr_data_type),
              dirty_sectors |-> d, cached_sectors |-> c]

VARIABLES
    \* ---- concurrent markers on one bucket (bch2_mark_pointer) ----
    g_mark,      \* g->_mark of the bucket
    g_init,      \* the bucket's mark when the markers started
    m_arg,       \* per marker: the call's arguments
    m_pc,        \* per marker: position in bch2_mark_pointer
    m_v,         \* per marker: local v (last value read from g->_mark)
    m_old,       \* per marker: local old
    m_new,       \* per marker: local new
    m_ret,       \* per marker: return value once finished
    \* ---- disk reservations and filesystem usage ----
    c_sectors_available,     \* c->sectors_available (atomic64, read as s64)
    pcpu_sectors_available,  \* c->pcpu->sectors_available, per core
    usage_base,              \* c->usage_base
    usage,                   \* c->usage[idx], per core
    disk_res,                \* res->sectors of each caller-held reservation
    r_nops,                  \* number of calls made so far
    r_last,                  \* the last call: arguments, path, result, pre-state
    r_grant,                 \* at a release: the grant that directly preceded it
    \* ---- one counter word of the sharded usage, step by step ----
    f_seq,       \* c->usage_lock (seqcount)
    f_base,      \* the word in usage_base
    f_shard,     \* the word in usage[idx], per core
    f_true,      \* sum of every delta ever accumulated into the word
    f_owned,     \* the buckets whose mark has owned_by_allocator set
    f_nmarks,    \* number of marker calls made so far
    fold_pc,     \* position in bch2_fs_usage_acc_to_base
    fold_idx,    \* its idx argument
    fold_cpu,    \* the cores its current loop still has to visit
    fold_n,      \* number of folds begun so far
    rd_pc,       \* position in the snapshot read
    rd_seq,      \* its local seq
    rd_ret,      \* its local ret
    rd_todo,     \* the (idx, core) shards it still has to add
    rd_retries,  \* number of times read_seqcount_retry sent it back
    \* ---- the bucket table, device usage and replicas ledger under marks ----
    buckets,     \* per device: the mark of the bucket its pointers refer to
    dev_usage,   \* per device: ca->usage (d[type].buckets/sectors/fragmented)
    c_usage,     \* hidden, btree, data, cached and replicas[] of c->usage
    btree_keys,  \* the extents live in the extents btree
    mk_sum,      \* device 0's bucket: starting counts plus every applied delta
    mk_nops,     \* number of marking calls made so far
    mk_last,     \* the last marking call: arguments, results, pre-state
    mk_prev,     \* the marking call before it
    \* ---- stripes, the other btrees and one transaction ----
    stripes,          \* c->stripes[0]: per allocated index, a struct stripe
    btrees,           \* per btree id (EC, REFLINK): the key at each position
    trans_updates,    \* the transaction's pending updates, per (btree, pos)
    fs_usage_deltas,  \* trans->fs_usage_deltas, the replicas delta list
    \* ---- one device's bucket table under bch2_dev_buckets_resize ----
    rz_tables,   \* every bucket_array allocated so far: nbuckets, b[], freed
    rz_pub,      \* ca->buckets[0]: index of the published table, 0 for NULL
    rz_nouse,    \* ca->buckets_nouse: its number of longs and the bits set
    rz_lock,     \* gc_lock, bucket_lock, mark_lock (writer and shared holders)
    rz_pc,       \* position in bch2_dev_buckets_resize
    rz_loc,      \* its arguments and locals
    rz_n,        \* number of resize calls made so far
    rz_mk,       \* per marker: position, g's table and calls made
    rz_rd,       \* per rcu reader: position and dereferenced table
    rz_rcu,      \* call_rcu callbacks not yet run: table, readers waited for
    \* ---- the view of the GC scan ----
    gc_view,     \* buckets[1], their stripe back-references, stripes[1], usage_gc
    \* ---- bch2_disk_reservation_add step by step ----
    res_call     \* per core: the call running there, its position and locals

casVars == <<g_mark, g_init, m_arg, m_pc, m_v, m_old, m_new, m_ret>>

resVars == <<c_sectors_available, pcpu_sectors_available, usage_base, usage,
             disk_res, r_nops, r_last, r_grant>>

foldVars == <<f_seq, f_base, f_shard, f_true, f_owned, f_nmarks,
              fold_pc, fold_idx, fold_cpu, fold_n,
              rd_pc, rd_seq, rd_ret, rd_todo, rd_retries>>

markVars == <<buckets, dev_usage, c_usage, btree_keys,
              mk_sum, mk_nops, mk_last, mk_prev>>

ecVars == <<stripes, btrees, trans_updates, fs_usage_deltas>>

rszVars == <<rz_tables, rz_pub, rz_nouse, rz_lock, rz_pc, rz_loc, rz_n,
             rz_mk, rz_rd, rz_rcu>>

gcVars == <<gc_view>>

callVars == <<res_call>>

vars == <<casVars, resVars, foldVars, markVars, ecVars, rszVars, gcVars,
          callVars>>

casOthers == <<resVars, foldVars, markVars, ecVars, rszVars, gcVars,
              callVars>>
resOthers == <<casVars, foldVars, markVars, ecVars, rszVars, gcVars,
              callVars>>
foldOthers == <<casVars, resVars, markVars, ecVars, rszVars, gcVars,
              callVars>>
markOthers == <<casVars, resVars, foldVars, ecVars, rszVars, gcVars,
              callVars>>
ecOthers == <<casVars, resVars, foldVars, rszVars, gcVars,
              callVars>>
rszOthers == <<casVars, resVars, foldVars, markVars, ecVars, gcVars,
              callVars>>

(***************************************************************************)
(* Idle values: what a component's variables hold in the specifications    *)
(* that do not exercise it.                                                *)
(***************************************************************************)
CasIdle ==
    /\ g_mark = ZeroMark
    /\ g_init = ZeroMark
    /\ m_arg = <<>>
    /\ m_pc = <<>>
    /\ m_v = <<>>
    /\ m_old = <<>>
    /\ m_new = <<>>
    /\ m_ret = <<>>

UsageZero ==
    [hidden |-> 0, btree |-> 0, data |-> 0, cached |-> 0, reserved |-> 0,
     online_reserved |-> 0, nr_inodes |-> 0]

NoCall == [op |-> "none"]

ResIdle ==
    /\ c_sectors_available = 0
    /\ pcpu_sectors_available = <<>>
    /\ usage_base = UsageZero
    /\ usage = <<>>
    /\ disk_res = <<>>
    /\ r_nops = 0
    /\ r_last = NoCall
    /\ r_grant = NoCall

FoldIdle ==
    /\ f_seq = 0
    /\ f_base = 0
    /\ f_shard = <<>>
    /\ f_true = 0
    /\ f_owned = {}
    /\ f_nmarks = 0
    /\ fold_pc = "idle"
    /\ fold_idx = 0
    /\ fold_cpu = {}
    /\ fold_n = 0
    /\ rd_pc = "idle"
    /\ rd_seq = 0
    /\ rd_ret = 0
    /\ rd_todo = <<>>
    /\ rd_retries = 0

MarkIdle ==
    /\ buckets = <<>>
    /\ dev_usage = <<>>
    /\ c_usage = <<>>
    /\ btree_keys = {}
    /\ mk_sum = [dirty |-> 0, cached |-> 0]
    /\ mk_nops = 0
    /\ mk_last = NoCall
    /\ mk_prev = NoCall

\* no stripe slot, no key in the other btrees, a transaction without updates
\* and without a delta list (trans->fs_usage_deltas == NULL)
BCH_REPLICAS_MAX == 4

NoDeltaList ==
    [size |-> 0, used |-> 0, d |-> <<>>, nr_inodes |-> 0,
     persistent_reserved |-> [i \in 0..(BCH_REPLICAS_MAX - 1) |-> 0]]

EcIdle ==
    /\ stripes = <<>>
    /\ btrees = <<>>
    /\ trans_updates = <<>>
    /\ fs_usage_deltas = NoDeltaList

\* no GC scan under way and no reservation call in steps
GcIdle == gc_view = <<>> /\ res_call = <<>>

NoLocks == [gc |-> FALSE, bucket |-> FALSE, mark_w |-> FALSE, mark_r |-> {}]

RszIdle ==
    /\ rz_tables = <<>>
    /\ rz_pub = 0
    /\ rz_nouse = [longs |-> 0, bits |-> {}]
    /\ rz_lock = NoLocks
    /\ rz_pc = "idle"
    /\ rz_loc = NoCall
    /\ rz_n = 0
    /\ rz_mk = <<>>
    /\ rz_rd = <<>>
    /\ rz_rcu = {}

(***************************************************************************)
(* SpecCas: NrMarkers threads each run bch2_mark_pointer once on the same  *)
(* bucket, without BTREE_TRIGGER_NOATOMIC.  Steps of one call:             *)
(*   "read"    v = atomic64_read(&g->_mark.v)                              *)
(*   "compute" loop body: old = new = v; __mark_pointer; journal_seq       *)
(*   "cas"     atomic64_cmpxchg; on failure v = current value, loop again  *)
(*   "done"    returned                                                    *)
(***************************************************************************)
NrMarkers == 2
Markers == 1..NrMarkers

CasDeltas == {-20, 50}
CasInitSectors == {0, 20, 65500}

\* gen is the pointer's generation, here always the bucket's
MarkerArgs ==
    [sectors : CasDeltas, cached : BOOLEAN, journal_seq : {0, 1}, gen : {1}]

CasInit ==
    /\ \E s \in CasInitSectors, c \in CasInitSectors :
          g_mark = BucketMark(1,
                              IF s # 0 \/ c # 0 THEN BCH_DATA_user
                              ELSE BCH_DATA_none,
                              s, c, 0, 0)
    /\ g_init = g_mark
    /\ m_arg \in [Markers -> MarkerArgs]
    /\ m_pc = [p \in Markers |-> "read"]
    /\ m_v = [p \in Markers |-> ZeroMark]
    /\ m_old = [p \in Markers |-> ZeroMark]
    /\ m_new = [p \in Markers |-> ZeroMark]
    /\ m_ret = [p \in Markers |-> 0]

\* v = atomic64_read(&g->_mark.v);
MarkPointerRead(p) ==
    /\ m_pc[p] = "read"
    /\ m_v' = [m_v EXCEPT ![p] = g_mark]
    /\ m_pc' = [m_pc EXCEPT ![p] = "compute"]
    /\ UNCHANGED <<g_mark, g_init, m_arg, m_old, m_new, m_ret>>
    /\ UNCHANGED casOthers

\* if (ret) return ret; inside the loop, before the store
mark_pointer_returns_on_fault(ret) == ret < 0

mark_pointer_returns(ret) == ret # 0

\* the body of the do { } while loop, up to the cmpxchg
MarkPointerCompute(p) ==
    /\ m_pc[p] = "compute"
    /\ LET v == m_v[p]
           a == m_arg[p]
           r == __mark_pointer([gen |-> a.gen, cached |-> a.cached],
                               a.sectors, BCH_DATA_user, v.gen,
                               v.data_type, v.dirty_sectors, v.cached_sectors)
           n == [v EXCEPT !.data_type = r.data_type,
                          !.dirty_sectors = r.dirty_sectors,
                          !.cached_sectors = r.cached_sectors,
                          !.journal_seq_valid =
                              IF a.journal_seq # 0 THEN 1 ELSE @,
                          !.journal_seq =
                              IF a.journal_seq # 0 THEN a.journal_seq ELSE @]
       IN  /\ m_old' = [m_old EXCEPT ![p] = v]
           /\ m_ret' = [m_ret EXCEPT ![p] = r.ret]
           /\ IF mark_pointer_returns(r.ret)
              THEN /\ m_pc' = [m_pc EXCEPT ![p] = "done"]
                   /\ m_new' = [m_new EXCEPT ![p] = v]
              ELSE /\ m_new' = [m_new EXCEPT ![p] = n]
                   /\ m_pc' = [m_pc EXCEPT ![p] = "cas"]
    /\ UNCHANGED <<g_mark, g_init, m_arg, m_v>>
    /\ UNCHANGED casOthers

\* atomic64_cmpxchg(&g->_mark.v, old, new) stores new iff the word equals old
cmpxchg_always_stores(cur, old) == TRUE

atomic64_cmpxchg_stores(cur, old) == cur = old

\* after names the position a successful exchange leads to
MarkPointerCmpxchg(p, after) ==
    /\ m_pc[p] = "cas"
    /\ IF atomic64_cmpxchg_stores(g_mark, m_old[p])
       THEN /\ g_mark' = m_new[p]
            /\ m_pc' = [m_pc EXCEPT ![p] = after]
            /\ UNCHANGED m_v
       ELSE /\ m_v' = [m_v EXCEPT ![p] = g_mark]
            /\ m_pc' = [m_pc EXCEPT ![p] = "compute"]
            /\ UNCHANGED g_mark
    /\ UNCHANGED <<g_init, m_arg, m_old, m_new, m_ret>>
    /\ UNCHANGED casOthers

\* the call as far as the bucket's mark is concerned
MarkPointerCas(p) == MarkPointerCmpxchg(p, "done")

CasNext ==
    \E p \in Markers :
        \/ MarkPointerRead(p)
        \/ MarkPointerCompute(p)
        \/ MarkPointerCas(p)


\* Net delta that the markers that returned 0 asked for.
RECURSIVE CasApplied(_, _)
CasApplied(S, cached) ==
    IF S = {} THEN 0
    ELSE LET p == CHOOSE q \in S : TRUE
         IN (IF m_ret[p] = 0 /\ m_arg[p].cached = cached
             THEN m_arg[p].sectors ELSE 0) + CasApplied(S \ {p}, cached)

CasAllDone == \A p \in Markers : m_pc[p] = "done"

\* C1: when all concurrent markers have returned, the bucket's dirty and
\* cached sector counts are the initial counts plus the deltas of every
\* marker that passed validation (returned 0), under every interleaving of
\* the read / compute / cmpxchg steps: no update is lost.
C1_NoLostUpdate ==
    CasAllDone =>
        /\ g_mark.dirty_sectors =
               g_init.dirty_sectors + CasApplied(Markers, FALSE)
        /\ g_mark.cached_sectors =
               g_init.cached_sectors + CasApplied(Markers, TRUE)

\* C1 witness: two markers of the same bucket's dirty count, +50 and -20,
\* both passed validation, and one of them had to retry its cmpxchg (its
\* old differs from the initial mark).
C1_Witness ==
    /\ CasAllDone
    /\ \E p, q \in Markers :
          /\ p # q
          /\ m_ret[p] = 0 /\ m_ret[q] = 0
          /\ ~m_arg[p].cached /\ ~m_arg[q].cached
          /\ m_arg[p].sectors = 50 /\ m_arg[q].sectors = -20
          /\ m_old[q] # g_init
          /\ g_mark.dirty_sectors = g_init.dirty_sectors + 30

(***************************************************************************)
(* Disk reservations and filesystem usage.                                 *)
(*                                                                         *)
(* struct bch_fs_usage is a vector of u64 counters; c->usage_base holds    *)
(* the folded value, c->usage[idx] one shard per core for each journal     *)
(* buffer idx.  Shards are kept as integers: a shard that was only         *)
(* subtracted from holds a negative number where C holds the same value    *)
(* modulo 2^64, and every sum the code forms is a sum modulo 2^64.         *)
(***************************************************************************)
Cpus == {0, 1}

\* ARRAY_SIZE(c->usage): one shard set per journal buffer
NrUsage == 2
UsageIdx == 0..(NrUsage - 1)

Reservations == {"res1", "res2"}
NoRes == "NULL"

MaxResOps == 3

\* c->capacity
Capacity == 3000

RESERVE_FACTOR == 6
SECTORS_CACHE == 1024
ENOSPC == -28
BCH_DISK_RESERVATION_NOFAIL == "NOFAIL"

UsageFields == DOMAIN UsageZero

\* acc_u64s(): dst[i] += src[i] for every counter
acc_u64s(dst, src) == [f \in UsageFields |-> dst[f] + src[f]]

\* acc_u64s_percpu(): dst += the sum over the cores of one shard set
RECURSIVE acc_u64s_percpu(_, _, _)
acc_u64s_percpu(dst, shard, cpus) ==
    IF cpus = {} THEN dst
    ELSE LET cpu == CHOOSE x \in cpus : TRUE
         IN acc_u64s_percpu(acc_u64s(dst, shard[cpu]), shard, cpus \ {cpu})

\* bch2_fs_usage_read(): usage_base plus every core's shard of every idx
RECURSIVE fs_usage_read_from(_, _, _)
fs_usage_read_from(base, shards, idxs) ==
    IF idxs = {} THEN base
    ELSE LET i == CHOOSE x \in idxs : TRUE
         IN fs_usage_read_from(acc_u64s_percpu(base, shards[i], Cpus),
                               shards, idxs \ {i})

bch2_fs_usage_read == fs_usage_read_from(usage_base, usage, UsageIdx)

\* bch2_fs_usage_read_one(c, &c->usage_base->f)
bch2_fs_usage_read_one(f) == bch2_fs_usage_read[f]

\* the quotient rounded down
round_down_shift(r) == r \div 2^RESERVE_FACTOR
\* round_up(r, 1 << RESERVE_FACTOR) >> RESERVE_FACTOR
round_up_shift(r) == ((r + (2^RESERVE_FACTOR - 1)) \div 2^RESERVE_FACTOR)

reserve_factor(r) == r + round_up_shift(r)

\* the free space taken as available in full
avail_factor_whole(r) == r

\* div_u64(r << RESERVE_FACTOR, (1 << RESERVE_FACTOR) + 1)
avail_factor(r) == (r * 2^RESERVE_FACTOR) \div (2^RESERVE_FACTOR + 1)

\* __bch2_fs_usage_read_short(), from a usage aggregate u
fs_usage_read_short(u) ==
    LET capacity == Capacity - u.hidden
        data == u.data + u.btree
        reserved == u.reserved + u.online_reserved
        used == Min(capacity, data + reserve_factor(reserved))
    IN  [capacity |-> capacity, used |-> used, free |-> capacity - used,
         nr_inodes |-> u.nr_inodes]

__bch2_fs_usage_read_short == fs_usage_read_short(bch2_fs_usage_read)

ResInit ==
    /\ c_sectors_available = 0
    /\ pcpu_sectors_available = [cpu \in Cpus |-> 0]
    /\ usage_base = [UsageZero EXCEPT !.data = 1000]
    /\ usage = [i \in UsageIdx |-> [cpu \in Cpus |-> UsageZero]]
    /\ disk_res = [r \in Reservations |-> 0]
    /\ r_nops = 0
    /\ r_last = NoCall
    /\ r_grant = NoCall

\* what a call's record keeps of the state it started from
ResPre(r, cpu) ==
    [usage |-> bch2_fs_usage_read,
     res |-> IF r = NoRes THEN 0 ELSE disk_res[r],
     sectors_available |-> c_sectors_available,
     pcpu |-> pcpu_sectors_available[cpu]]

\* get = min((u64) sectors + SECTORS_CACHE, old), old the u64 reading of
\* c->sectors_available: a negative s64 reads as a value above any request
reservation_get(sectors, old) ==
    IF old < 0 THEN sectors + SECTORS_CACHE
    ELSE Min(sectors + SECTORS_CACHE, old)

\* out: pcpu->sectors_available -= sectors
pcpu_debit_skipped(avail, sectors) == avail

pcpu_debit(avail, sectors) == avail - sectors

\* the slow path's test: sectors <= sectors_available || (flags & NOFAIL)
recalculate_grants_without_nofail(sectors, sectors_available, flags) ==
    sectors <= sectors_available

recalculate_grants(sectors, sectors_available, flags) ==
    sectors <= sectors_available \/ BCH_DISK_RESERVATION_NOFAIL \in flags

\* this_cpu_add(c->usage[0]->online_reserved, n) on core cpu
usage_add_online_reserved(u, idx, cpu, n) ==
    [u EXCEPT ![idx][cpu].online_reserved = @ + n]

\* bch2_disk_reservation_add, fast path (label out reached without recalculate)
DiskReservationAddFast(r, cpu, sectors, flags) ==
    LET fromcache == sectors <= pcpu_sectors_available[cpu]
        get == reservation_get(sectors, c_sectors_available)
    IN  /\ fromcache \/ ~(get < sectors)
        /\ c_sectors_available' =
               IF fromcache THEN c_sectors_available
               ELSE c_sectors_available - get
        /\ pcpu_sectors_available' =
               [pcpu_sectors_available EXCEPT ![cpu] =
                   pcpu_debit(IF fromcache THEN @ ELSE @ + get, sectors)]
        /\ usage' = usage_add_online_reserved(usage, 0, cpu, sectors)
        /\ disk_res' = [disk_res EXCEPT ![r] = @ + sectors]
        /\ r_last' = [op |-> "add", res |-> r, cpu |-> cpu, sectors |-> sectors,
                      flags |-> flags, slow |-> FALSE, ret |-> 0,
                      pre |-> ResPre(r, cpu)]
        /\ UNCHANGED usage_base

\* bch2_disk_reservation_add, label recalculate
DiskReservationAddSlow(r, cpu, sectors, flags) ==
    LET get == reservation_get(sectors, c_sectors_available)
        sectors_available == avail_factor(__bch2_fs_usage_read_short.free)
        granted == recalculate_grants(sectors, sectors_available, flags)
    IN  /\ ~(sectors <= pcpu_sectors_available[cpu])
        /\ get < sectors
        /\ pcpu_sectors_available' = [c \in Cpus |-> 0]
        /\ IF granted
           THEN /\ c_sectors_available' = Max(0, sectors_available - sectors)
                /\ usage' = usage_add_online_reserved(usage, 0, cpu, sectors)
                /\ disk_res' = [disk_res EXCEPT ![r] = @ + sectors]
           ELSE /\ c_sectors_available' = sectors_available
                /\ UNCHANGED <<usage, disk_res>>
        /\ r_last' = [op |-> "add", res |-> r, cpu |-> cpu, sectors |-> sectors,
                      flags |-> flags, slow |-> TRUE,
                      ret |-> IF granted THEN 0 ELSE ENOSPC,
                      pre |-> ResPre(r, cpu)]
        /\ UNCHANGED usage_base

bch2_disk_reservation_add(r, cpu, sectors, flags) ==
    /\ r_nops < MaxResOps
    /\ r_nops' = r_nops + 1
    /\ r_grant' = NoCall
    /\ \/ DiskReservationAddFast(r, cpu, sectors, flags)
       \/ DiskReservationAddSlow(r, cpu, sectors, flags)
    /\ UNCHANGED resOthers

\* this_cpu_sub(c->usage[0]->online_reserved, res->sectors)
put_online_reserved_kept(u, cpu, sectors) == u

put_online_reserved(u, cpu, sectors) ==
    [u EXCEPT ![0][cpu].online_reserved = @ - sectors]

__bch2_disk_reservation_put(r, cpu) ==
    /\ r_nops < MaxResOps
    /\ r_nops' = r_nops + 1
    /\ usage' = put_online_reserved(usage, cpu, disk_res[r])
    /\ disk_res' = [disk_res EXCEPT ![r] = 0]
    /\ r_grant' = IF r_last.op = "add" /\ r_last.res = r THEN r_last ELSE NoCall
    /\ r_last' = [op |-> "put", res |-> r, cpu |-> cpu, ret |-> 0,
                  pre |-> ResPre(r, cpu)]
    /\ UNCHANGED <<c_sectors_available, pcpu_sectors_available, usage_base>>
    /\ UNCHANGED resOthers

\* the usage deltas a transaction hands to bch2_fs_usage_apply
ApplyDeltas ==
    {[UsageZero EXCEPT !.data = 300],
     [UsageZero EXCEPT !.data = 600, !.reserved = 100]}

\* added after the WARN_ONCE block: added -= should_not_have_added when the
\* warning fired
usage_apply_added_unclamped(added, should_not_have_added) == added

usage_apply_added(added, should_not_have_added) ==
    IF should_not_have_added > 0 THEN added - should_not_have_added ELSE added

\* bch2_fs_usage_apply(c, fs_usage, disk_res, journal_seq) on core cpu;
\* r = NoRes stands for disk_res == NULL
bch2_fs_usage_apply(fs_usage, r, journal_seq, cpu) ==
    LET added0 == fs_usage.data + fs_usage.reserved
        held == IF r = NoRes THEN 0 ELSE disk_res[r]
        should_not_have_added == added0 - held
        warn == should_not_have_added > 0
        added == usage_apply_added(added0, should_not_have_added)
        delta == IF added > 0
                 THEN [fs_usage EXCEPT !.online_reserved = @ - added]
                 ELSE fs_usage
        idx == journal_seq % NrUsage
    IN  /\ r_nops < MaxResOps
        /\ r_nops' = r_nops + 1
        /\ c_sectors_available' =
               IF warn THEN c_sectors_available - should_not_have_added
               ELSE c_sectors_available
        /\ disk_res' = IF added > 0 THEN [disk_res EXCEPT ![r] = @ - added]
                       ELSE disk_res
        /\ usage' = [usage EXCEPT ![idx][cpu] = acc_u64s(@, delta)]
        /\ r_grant' = NoCall
        /\ r_last' = [op |-> "apply", res |-> r, cpu |-> cpu,
                      fs_usage |-> fs_usage, consumed |-> Max(added, 0),
                      ret |-> IF warn THEN -1 ELSE 0,
                      pre |-> ResPre(r, cpu)]
        /\ UNCHANGED <<pcpu_sectors_available, usage_base>>
        /\ UNCHANGED resOthers

\* bch2_fs_usage_acc_to_base(c, idx) as bch2_fs_usage_initialize calls it,
\* with mark_lock held exclusively: no marker or reservation runs meanwhile
FsUsageAccToBaseLocked(idx) ==
    /\ r_nops < MaxResOps
    /\ r_nops' = r_nops + 1
    /\ usage_base' = acc_u64s_percpu(usage_base, usage[idx], Cpus)
    /\ usage' = [usage EXCEPT ![idx] = [cpu \in Cpus |-> UsageZero]]
    /\ r_grant' = NoCall
    /\ r_last' = [op |-> "fold", idx |-> idx]
    /\ UNCHANGED <<c_sectors_available, pcpu_sectors_available, disk_res>>
    /\ UNCHANGED resOthers

\* the (sectors, flags) arguments of the reservation calls
ResRequests ==
    {<<500, {}>>, <<2000, {}>>, <<2000, {BCH_DISK_RESERVATION_NOFAIL}>>}

ResNext ==
    \/ \E r \in Reservations, cpu \in Cpus, q \in ResRequests :
          bch2_disk_reservation_add(r, cpu, q[1], q[2])
    \/ \E r \in Reservations, cpu \in Cpus :
          __bch2_disk_reservation_put(r, cpu)
    \/ \E d \in ApplyDeltas, r \in Reservations \cup {NoRes},
          j \in UsageIdx, cpu \in Cpus :
          bch2_fs_usage_apply(d, r, j, cpu)
    \/ \E idx \in UsageIdx : FsUsageAccToBaseLocked(idx)

\* sum of res->sectors over the reservations callers hold
RECURSIVE SumRes(_)
SumRes(S) ==
    IF S = {} THEN 0
    ELSE LET r == CHOOSE x \in S : TRUE IN disk_res[r] + SumRes(S \ {r})

\* C2: in every reachable state the sectors held by the granted, not yet
\* released reservations add up to the aggregate online_reserved counter
\* (usage_base plus every per-core shard).
C2_OnlineReservedIsHeld ==
    SumRes(DOMAIN disk_res) = bch2_fs_usage_read_one("online_reserved")

\* C2 witness: after a grant, a partial consumption by bch2_fs_usage_apply and
\* a fold, a reservation still holds sectors and the base carries part of
\* the counter.
C2_Witness ==
    /\ r_last.op = "fold"
    /\ usage_base.online_reserved # 0
    /\ \E r \in DOMAIN disk_res : disk_res[r] = 200


OnlineReserved == bch2_fs_usage_read_one("online_reserved")

\* a release that directly follows the successful grant of a fresh reservation
GrantThenRelease ==
    /\ r_last.op = "put"
    /\ r_grant.op = "add"
    /\ r_grant.ret = 0
    /\ r_grant.pre.res = 0

\* C9 as stated: granting n sectors and then releasing them leaves
\* online_reserved at its pre-grant value and sectors_available unchanged
\* from before the grant.
C9_AvailableRestored ==
    GrantThenRelease =>
        /\ OnlineReserved = r_grant.pre.usage.online_reserved
        /\ c_sectors_available = r_grant.pre.sectors_available

\* C9 amended: granting n sectors and then releasing them leaves
\* online_reserved at its pre-grant value and the reservation empty, but the
\* release returns nothing to sectors_available: after a fast-path grant
\* c->sectors_available plus the granting core's cache stays n below its
\* pre-grant value, and after a slow-path grant c->sectors_available stays
\* at max(0, avail_factor(free) - n) with every core's cache at 0.
C9_GrantReleaseKeepsDebit ==
    GrantThenRelease =>
        LET n == r_grant.sectors
            free == fs_usage_read_short(r_grant.pre.usage).free
        IN  /\ OnlineReserved = r_grant.pre.usage.online_reserved
            /\ disk_res[r_last.res] = 0
            /\ ~r_grant.slow =>
                  c_sectors_available + pcpu_sectors_available[r_grant.cpu] =
                      r_grant.pre.sectors_available + r_grant.pre.pcpu - n
            /\ r_grant.slow =>
                  /\ c_sectors_available = Max(0, ((free * 64) \div 65) - n)
                  /\ \A cpu \in Cpus : pcpu_sectors_available[cpu] = 0

\* C9 witness: 500 sectors granted on the fast path to a fresh reservation
\* and released by the next call.
C9_Witness ==
    /\ GrantThenRelease
    /\ ~r_grant.slow
    /\ r_grant.sectors = 500
    /\ r_grant.pre.sectors_available > 0

\* C10: on the slow path of bch2_disk_reservation_add the request is granted
\* iff sectors <= avail_factor(free) or BCH_DISK_RESERVATION_NOFAIL is set;
\* otherwise the call returns -ENOSPC and leaves res->sectors and
\* online_reserved at their values from before the call.
C10_SlowPathGrant ==
    (r_last.op = "add" /\ r_last.slow) =>
        LET u == r_last.pre.usage
            capacity == Capacity - u.hidden
            rsv == u.reserved + u.online_reserved
            used == Min(capacity, u.data + u.btree + rsv + ((rsv + 63) \div 64))
            avail == ((capacity - used) * 64) \div 65
            allowed == \/ r_last.sectors <= avail
                       \/ BCH_DISK_RESERVATION_NOFAIL \in r_last.flags
        IN  /\ (r_last.ret = 0) <=> allowed
            /\ r_last.ret # 0 =>
                  /\ r_last.ret = ENOSPC
                  /\ disk_res[r_last.res] = r_last.pre.res
                  /\ OnlineReserved = u.online_reserved
            /\ r_last.ret = 0 =>
                  /\ disk_res[r_last.res] = r_last.pre.res + r_last.sectors
                  /\ OnlineReserved = u.online_reserved + r_last.sectors

\* C10 witness: with reservations outstanding, a slow-path request above
\* avail_factor(free) without NOFAIL was refused.
C10_Witness ==
    /\ r_last.op = "add"
    /\ r_last.slow
    /\ r_last.ret = ENOSPC
    /\ r_last.pre.usage.online_reserved > 0
    /\ r_last.pre.res > 0

\* C11: bch2_fs_usage_apply with a delta whose data + reserved exceeds the
\* sectors the reservation holds (none held when there is no reservation)
\* returns -1, takes exactly the excess off c->sectors_available and consumes
\* exactly what the reservation held, so res->sectors ends at 0 and is never
\* negative; with a delta that fits it returns 0, leaves
\* c->sectors_available alone and lowers res->sectors and online_reserved by
\* exactly data + reserved.
C11_ApplyConsumesWithinReservation ==
    /\ \A r \in DOMAIN disk_res : disk_res[r] >= 0
    /\ r_last.op = "apply" =>
          LET d == r_last.fs_usage
              want == d.data + d.reserved
              held == r_last.pre.res
              excess == want - held
              left == IF r_last.res = NoRes THEN 0 ELSE disk_res[r_last.res]
          IN  /\ excess > 0 =>
                    /\ r_last.ret = -1
                    /\ c_sectors_available =
                           r_last.pre.sectors_available - excess
                    /\ r_last.consumed = held
                    /\ left = 0
                    /\ OnlineReserved =
                           r_last.pre.usage.online_reserved
                               + d.online_reserved - held
              /\ excess <= 0 =>
                    /\ r_last.ret = 0
                    /\ c_sectors_available = r_last.pre.sectors_available
                    /\ r_last.consumed = Max(want, 0)
                    /\ left = held - Max(want, 0)
                    /\ OnlineReserved =
                           r_last.pre.usage.online_reserved
                               + d.online_reserved - Max(want, 0)

\* C11 witness: a delta of 700 sectors applied against a reservation that
\* held 500: the call failed, the reservation is empty and 200 sectors left
\* the global counter.
C11_Witness ==
    /\ r_last.op = "apply"
    /\ r_last.ret = -1
    /\ r_last.pre.res = 500
    /\ r_last.fs_usage.data + r_last.fs_usage.reserved = 700
    /\ disk_res[r_last.res] = 0
    /\ c_sectors_available = r_last.pre.sectors_available - 200

(***************************************************************************)
(* The sharded counters step by step: one u64 word of struct bch_fs_usage  *)
(* or struct bch_dev_usage, its per-core shards, the fold                  *)
(* bch2_fs_usage_acc_to_base and the snapshot reads (bch2_fs_usage_read,   *)
(* bch2_fs_usage_read_one, bch2_dev_usage_read run the same loop).         *)
(*                                                                         *)
(* Folds do not overlap each other: write_seqcount_begin/end on            *)
(* c->usage_lock is a seqcount write section, entered by one writer at a   *)
(* time.  The fold itself takes no lock against the writers of a shard.    *)
(***************************************************************************)
MaxFolds == 2
MaxMarks == 3

FoldBuckets == {"b1", "b2"}

MinOf(S) == CHOOSE x \in S : \A y \in S : x <= y

\* the order in which a snapshot read visits the shards:
\* for (i = 0; i < ARRAY_SIZE(c->usage); i++) for_each_possible_cpu(cpu)
ShardOrder ==
    [k \in 1..(NrUsage * Cardinality(Cpus)) |->
        <<(k - 1) \div Cardinality(Cpus), (k - 1) % Cardinality(Cpus)>>]

RECURSIVE SumShards(_, _)
SumShards(sh, todo) ==
    IF todo = <<>> THEN 0
    ELSE sh[Head(todo)[1]][Head(todo)[2]] + SumShards(sh, Tail(todo))

\* usage_base plus every shard of the word, read in one instant
FoldAggregate == f_base + SumShards(f_shard, ShardOrder)

\* a word whose shards hold deltas that markers accumulated earlier; the
\* values are distinct powers of two, so a shard counted twice or dropped
\* shows in the sum
ReadInit ==
    /\ f_seq = 0
    /\ f_base = 2 ^ (NrUsage * Cardinality(Cpus))
    /\ f_shard = [i \in UsageIdx |->
                     [cpu \in Cpus |-> 2 ^ (i * Cardinality(Cpus) + cpu)]]
    /\ f_true = FoldAggregate
    /\ f_owned = {}
    /\ f_nmarks = 0
    /\ fold_pc = "idle"
    /\ fold_idx = 0
    /\ fold_cpu = {}
    /\ fold_n = 0
    /\ rd_pc = "begin"
    /\ rd_seq = 0
    /\ rd_ret = 0
    /\ rd_todo = <<>>
    /\ rd_retries = 0

\* the word buckets_alloc of a device whose buckets are all unowned
FoldInit ==
    /\ f_seq = 0
    /\ f_base = 0
    /\ f_shard = [i \in UsageIdx |-> [cpu \in Cpus |-> 0]]
    /\ f_true = 0
    /\ f_owned = {}
    /\ f_nmarks = 0
    /\ fold_pc = "idle"
    /\ fold_idx = 0
    /\ fold_cpu = {}
    /\ fold_n = 0
    /\ rd_pc = "idle"
    /\ rd_seq = 0
    /\ rd_ret = 0
    /\ rd_todo = <<>>
    /\ rd_retries = 0

rdVars == <<rd_pc, rd_seq, rd_ret, rd_todo, rd_retries>>
foldProcVars == <<fold_pc, fold_idx, fold_cpu, fold_n>>

\* preempt_disable(); write_seqcount_begin(&c->usage_lock);
FoldBegin(idx) ==
    /\ fold_pc = "idle"
    /\ fold_n < MaxFolds
    /\ f_seq' = f_seq + 1
    /\ fold_pc' = "acc"
    /\ fold_idx' = idx
    /\ fold_cpu' = Cpus
    /\ fold_n' = fold_n + 1
    /\ UNCHANGED <<f_base, f_shard, f_true, f_owned, f_nmarks>>
    /\ UNCHANGED rdVars
    /\ UNCHANGED foldOthers

\* acc_u64s_percpu(usage_base, usage[idx]): one core's shard per step
FoldAcc ==
    /\ fold_pc = "acc"
    /\ LET cpu == MinOf(fold_cpu)
       IN  /\ f_base' = f_base + f_shard[fold_idx][cpu]
           /\ fold_cpu' = IF fold_cpu = {cpu} THEN Cpus ELSE fold_cpu \ {cpu}
           /\ fold_pc' = IF fold_cpu = {cpu} THEN "zero" ELSE "acc"
    /\ UNCHANGED <<f_seq, f_shard, f_true, f_owned, f_nmarks, fold_idx, fold_n>>
    /\ UNCHANGED rdVars
    /\ UNCHANGED foldOthers

\* percpu_memset(usage[idx], 0): one core's shard per step
FoldZero ==
    /\ fold_pc = "zero"
    /\ LET cpu == MinOf(fold_cpu)
       IN  /\ f_shard' = [f_shard EXCEPT ![fold_idx][cpu] = 0]
           /\ fold_cpu' = fold_cpu \ {cpu}
           /\ fold_pc' = IF fold_cpu = {cpu} THEN "end" ELSE "zero"
    /\ UNCHANGED <<f_seq, f_base, f_true, f_owned, f_nmarks, fold_idx, fold_n>>
    /\ UNCHANGED rdVars
    /\ UNCHANGED foldOthers

\* write_seqcount_end(&c->usage_lock); preempt_enable();
FoldEnd ==
    /\ fold_pc = "end"
    /\ f_seq' = f_seq + 1
    /\ fold_pc' = "idle"
    /\ UNCHANGED <<f_base, f_shard, f_true, f_owned, f_nmarks,
                   fold_idx, fold_cpu, fold_n>>
    /\ UNCHANGED rdVars
    /\ UNCHANGED foldOthers

\* seq = read_seqcount_begin(&c->usage_lock): spins while seq is odd
ReadBegin ==
    /\ rd_pc = "begin"
    /\ f_seq % 2 = 0
    /\ rd_seq' = f_seq
    /\ rd_pc' = "base"
    /\ UNCHANGED <<rd_ret, rd_todo, rd_retries>>
    /\ UNCHANGED <<f_seq, f_base, f_shard, f_true, f_owned, f_nmarks>>
    /\ UNCHANGED foldProcVars
    /\ UNCHANGED foldOthers

\* ret = *v  /  memcpy(ret, usage_base)
ReadBase ==
    /\ rd_pc = "base"
    /\ rd_ret' = f_base
    /\ rd_todo' = ShardOrder
    /\ rd_pc' = "shards"
    /\ UNCHANGED <<rd_seq, rd_retries>>
    /\ UNCHANGED <<f_seq, f_base, f_shard, f_true, f_owned, f_nmarks>>
    /\ UNCHANGED foldProcVars
    /\ UNCHANGED foldOthers

\* ret += the next shard (percpu_u64_get / acc_u64s_percpu, core by core)
ReadShard ==
    /\ rd_pc = "shards"
    /\ rd_ret' = rd_ret + f_shard[Head(rd_todo)[1]][Head(rd_todo)[2]]
    /\ rd_todo' = Tail(rd_todo)
    /\ rd_pc' = IF Tail(rd_todo) = <<>> THEN "check" ELSE "shards"
    /\ UNCHANGED <<rd_seq, rd_retries>>
    /\ UNCHANGED <<f_seq, f_base, f_shard, f_true, f_owned, f_nmarks>>
    /\ UNCHANGED foldProcVars
    /\ UNCHANGED foldOthers

\* read_seqcount_retry(&c->usage_lock, seq)
read_seqcount_never_retries(now, seq) == FALSE

read_seqcount_retry(now, seq) == now # seq

\* } while (read_seqcount_retry(&c->usage_lock, seq)); return ret;
ReadCheck ==
    /\ rd_pc = "check"
    /\ IF read_seqcount_retry(f_seq, rd_seq)
       THEN /\ rd_pc' = "begin"
            /\ rd_retries' = rd_retries + 1
       ELSE /\ rd_pc' = "done"
            /\ UNCHANGED rd_retries
    /\ UNCHANGED <<rd_seq, rd_ret, rd_todo>>
    /\ UNCHANGED <<f_seq, f_base, f_shard, f_true, f_owned, f_nmarks>>
    /\ UNCHANGED foldProcVars
    /\ UNCHANGED foldOthers

\* __bch2_mark_alloc_bucket(c, ca, b, owned_by_allocator, gc = false) on core
\* cpu: sets the flag in the bucket's mark and, through
\* bch2_dev_usage_update(..., journal_seq = 0, ...), adds new - old to
\* buckets_alloc in this core's shard of ca->usage[0].  The call never clears
\* the flag of a bucket that does not have it (BUG_ON at its end).
MarkAllocBucket(b, owned_by_allocator, cpu) ==
    LET old == IF b \in f_owned THEN 1 ELSE 0
        new == IF owned_by_allocator THEN 1 ELSE 0
    IN  /\ f_nmarks < MaxMarks
        /\ owned_by_allocator \/ b \in f_owned
        /\ f_nmarks' = f_nmarks + 1
        /\ f_owned' = IF owned_by_allocator THEN f_owned \cup {b}
                      ELSE f_owned \ {b}
        /\ f_shard' = [f_shard EXCEPT ![0][cpu] = @ + (new - old)]
        /\ f_true' = f_true + (new - old)
        /\ UNCHANGED <<f_seq, f_base>>
        /\ UNCHANGED foldProcVars
        /\ UNCHANGED rdVars
        /\ UNCHANGED foldOthers

FoldSteps ==
    \/ \E idx \in UsageIdx : FoldBegin(idx)
    \/ FoldAcc
    \/ FoldZero
    \/ FoldEnd

ReadNext ==
    \/ FoldSteps
    \/ ReadBegin
    \/ ReadBase
    \/ ReadShard
    \/ ReadCheck

FoldNext ==
    \/ FoldSteps
    \/ \E b \in FoldBuckets, o \in BOOLEAN, cpu \in Cpus :
          MarkAllocBucket(b, o, cpu)

\* C3: a snapshot read that runs concurrently with folds returns the
\* aggregate of the word, base plus all shards, as it is at every point of
\* the run (folds move values, they do not change the sum): no shard is
\* counted twice or dropped because a fold moved it to the base mid-read.
C3_SnapshotNotTorn ==
    rd_pc = "done" => rd_ret = f_true

\* C3 witness: a read returned after a fold made it retry.
C3_Witness ==
    /\ rd_pc = "done"
    /\ rd_retries >= 1
    /\ fold_n >= 1
    /\ f_base # 2 ^ (NrUsage * Cardinality(Cpus))

\* C4: whenever no fold is in progress, usage_base plus the per-core shards
\* of a counter equals the sum of every delta ever accumulated into it,
\* also when a marker on another core added to a shard while a fold of
\* that shard was between its accumulate step and its zeroing step.
C4_FoldKeepsAggregate ==
    fold_pc = "idle" => FoldAggregate = f_true

(***************************************************************************)
(* The marking engine, call by call: the bucket table (one bucket per      *)
(* device: the bucket that device's pointers refer to), the device usage   *)
(* and the replicas ledger.  The state a mark works on is passed as one    *)
(* record S = [buckets, dev_usage, c_usage].                               *)
(*                                                                         *)
(* Not carried: the gc view (every call is the normal view) and the        *)
(* dev-usage fields buckets_alloc and buckets_ec.  Next to the fields of   *)
(* struct bch_dev_usage, dev_usage[dev].wakeups counts the calls of        *)
(* bch2_wake_allocator(ca) made for the device.                            *)
(***************************************************************************)
Devs == {0, 1}
BucketSize == 32768
BtreeNodeSize == 512

BTREE_TRIGGER_INSERT == "INSERT"
BTREE_TRIGGER_OVERWRITE == "OVERWRITE"
BTREE_TRIGGER_OVERWRITE_SPLIT == "OVERWRITE_SPLIT"
BTREE_TRIGGER_BUCKET_INVALIDATE == "BUCKET_INVALIDATE"

AddAt(f, k, v) == [f EXCEPT ![k] = @ + v]

\* The element of a one-element set: TheOne({ F(x) : x \in {e} }) is F(e)
\* with e evaluated once, the way a C local holds a call's result.
TheOne(s) == CHOOSE x \in s : TRUE

\* struct bch_replicas_entry, devs kept sorted by bch2_replicas_entry_idx
ReplicasEntry(data_type, nr_required, devs) ==
    [data_type |-> data_type, nr_required |-> nr_required, devs |-> devs]

ReplicasEntries ==
    { ReplicasEntry(t, 1, ds) :
        t \in {BCH_DATA_btree, BCH_DATA_user, BCH_DATA_cached},
        ds \in SUBSET Devs \ {{}} }

bch2_replicas_entry_cached(dev) == ReplicasEntry(BCH_DATA_cached, 1, {dev})

DevUsageZero ==
    [buckets |-> [t \in DataTypes |-> 0],
     sectors |-> [t \in DataTypes |-> 0],
     fragmented |-> [t \in DataTypes |-> 0],
     buckets_unavailable |-> 0, wakeups |-> 0]

MarkUsageZero ==
    [hidden |-> 0, btree |-> 0, data |-> 0, cached |-> 0,
     nr_inodes |-> 0, reserved |-> 0,
     persistent_reserved |-> [i \in 0..(BCH_REPLICAS_MAX - 1) |-> 0],
     replicas |-> [e \in ReplicasEntries |-> 0]]

bucket_sectors_used(m) == m.dirty_sectors + m.cached_sectors

bucket_sectors_fragmented(m) ==
    IF bucket_sectors_used(m) # 0
    THEN Max(0, BucketSize - bucket_sectors_used(m))
    ELSE 0

\* is_available_bucket: no dirty sectors and no stripe
is_available_bucket(m) == m.dirty_sectors = 0 /\ m.stripe = 0

is_unavailable_bucket(m) == IF is_available_bucket(m) THEN 0 ELSE 1

\* the wake-up whenever the new mark is available
wake_on_available(old, new) == is_available_bucket(new)

\* !is_available_bucket(old) && is_available_bucket(new)
bucket_became_available(old, new) ==
    ~is_available_bucket(old) /\ is_available_bucket(new)

bucket_type(m) ==
    IF m.cached_sectors # 0 /\ m.dirty_sectors = 0 THEN BCH_DATA_cached
    ELSE m.data_type

fs_usage_data_type_to_base(u, data_type, sectors) ==
    IF data_type = BCH_DATA_btree THEN [u EXCEPT !.btree = @ + sectors]
    ELSE IF data_type \in {BCH_DATA_user, BCH_DATA_parity}
    THEN [u EXCEPT !.data = @ + sectors]
    ELSE IF data_type = BCH_DATA_cached THEN [u EXCEPT !.cached = @ + sectors]
    ELSE u

account_bucket(S, dev, type, nr, size) ==
    [S EXCEPT !.c_usage.hidden =
                  IF type \in {BCH_DATA_sb, BCH_DATA_journal} THEN @ + size
                  ELSE @,
              !.dev_usage[dev].buckets[type] = @ + nr]

\* the usage update left out
bch2_dev_usage_update_skipped(S, dev, old, new) == S
bch2_dev_usage_update(S, dev, old, new) ==
    LET S1 == IF bucket_type(old) # BCH_DATA_none
              THEN account_bucket(S, dev, bucket_type(old), -1, -BucketSize)
              ELSE S
        S2 == IF bucket_type(new) # BCH_DATA_none
              THEN account_bucket(S1, dev, bucket_type(new), 1, BucketSize)
              ELSE S1
        s1 == AddAt(S2.dev_usage[dev].sectors, old.data_type,
                    -old.dirty_sectors)
        s2 == AddAt(s1, new.data_type, new.dirty_sectors)
        s3 == AddAt(s2, BCH_DATA_cached,
                    new.cached_sectors - old.cached_sectors)
        f1 == AddAt(S2.dev_usage[dev].fragmented, old.data_type,
                    -bucket_sectors_fragmented(old))
        f2 == AddAt(f1, new.data_type, bucket_sectors_fragmented(new))
    IN  [S2 EXCEPT !.dev_usage[dev].sectors = s3,
                   !.dev_usage[dev].fragmented = f2,
                   !.dev_usage[dev].buckets_unavailable =
                       @ + is_unavailable_bucket(new)
                         - is_unavailable_bucket(old),
                   !.dev_usage[dev].wakeups =
                       IF bucket_became_available(old, new) THEN @ + 1
                       ELSE @]

\* update_replicas: an entry missing from the replicas table (idx < 0) changes
\* nothing; the immediate path ignores the return value.
update_replicas(S, r, sectors) ==
    IF r \notin DOMAIN S.c_usage.replicas THEN S
    ELSE [S EXCEPT !.c_usage =
            [fs_usage_data_type_to_base(@, r.data_type, sectors)
                EXCEPT !.replicas[r] = @ + sectors]]

\* the cached sectors of a device counted in its entry for user data
update_cached_sectors_as_dirty(S, dev, sectors) ==
    update_replicas(S, ReplicasEntry(BCH_DATA_user, 1, {dev}), sectors)

update_cached_sectors(S, dev, sectors) ==
    update_replicas(S, bch2_replicas_entry_cached(dev), sectors)

(***************************************************************************)
(* bch2_mark_pointer run alone: the loop's first compare-and-exchange (or  *)
(* the direct store of BTREE_TRIGGER_NOATOMIC) installs new, and the       *)
(* device usage is folded once with that (old, new) pair.                  *)
(*   p is [dev, gen, cached, compressed_size, uncompressed_size].          *)
(***************************************************************************)
bch2_mark_pointer(S, p, sectors, data_type, journal_seq) ==
    LET old == S.buckets[p.dev]
        New(r) ==
            [old EXCEPT
               !.data_type = r.data_type,
               !.dirty_sectors = r.dirty_sectors,
               !.cached_sectors = r.cached_sectors,
               !.journal_seq_valid = IF journal_seq # 0 THEN 1 ELSE @,
               !.journal_seq = IF journal_seq # 0 THEN journal_seq ELSE @]
        Store(r, new) ==
            IF r.ret # 0 THEN [ret |-> r.ret, S |-> S]
            ELSE [ret |-> 0,
                  S |-> bch2_dev_usage_update(
                            [S EXCEPT !.buckets[p.dev] = new],
                            p.dev, old, new)]
    IN  TheOne({ TheOne({ Store(r, new) : new \in {New(r)} }) :
                   r \in {__mark_pointer(p, sectors, data_type, old.gen,
                                         old.data_type, old.dirty_sectors,
                                         old.cached_sectors)} })

(***************************************************************************)
(* checked_add(a, b): [val, overflow], val being what is stored into the   *)
(* u16 a.                                                                  *)
(***************************************************************************)
checked_add_unclamped(a, b) ==
    [val |-> TruncU16(a + b), overflow |-> a + b > U16_MAX]

checked_add(a, b) ==
    LET res == a + b
    IN  [val |-> TruncU16(IF res > U16_MAX THEN U16_MAX ELSE res),
         overflow |-> res > U16_MAX]

__bch2_mark_metadata_bucket(S, dev, data_type, sectors) ==
    LET old == S.buckets[dev]
        sum == checked_add(old.dirty_sectors, sectors)
        new == [old EXCEPT !.data_type = data_type,
                           !.dirty_sectors = sum.val]
    IN  bch2_dev_usage_update([S EXCEPT !.buckets[dev] = new], dev, old, new)

(***************************************************************************)
(* bch2_mark_alloc for a new key u = [type, bucket, gen, data_type,        *)
(* dirty_sectors, cached_sectors, stripe] at position (dev, bucket); the   *)
(* fields after bucket are what bch2_alloc_unpack returns.  It returns 0   *)
(* always; the result here is the state it leaves.  The gc view, reached   *)
(* with both BTREE_TRIGGER_GC and BTREE_TRIGGER_BUCKET_INVALIDATE, is not  *)
(* carried.                                                                *)
(***************************************************************************)
KEY_TYPE_alloc == "alloc"
KEY_TYPE_alloc_v2 == "alloc_v2"
BTREE_TRIGGER_GC == "GC"

\* ca->mi.nbuckets: the table holds bucket 0 of each device
nbuckets == 1

\* the alloc mark that leaves the stripe bit of the mark alone
alloc_stripe_bit_kept(old_m, u) == old_m.stripe

\* m.stripe = u.stripe != 0
alloc_stripe_bit(old_m, u) == IF u.stripe # 0 THEN 1 ELSE 0

bch2_mark_alloc(S, dev, u, journal_seq, flags) ==
    LET old_m == S.buckets[dev]
        m == [old_m EXCEPT
                !.gen = u.gen,
                !.data_type = u.data_type,
                !.dirty_sectors = u.dirty_sectors,
                !.cached_sectors = u.cached_sectors,
                !.stripe = alloc_stripe_bit(old_m, u),
                !.journal_seq_valid = IF journal_seq # 0 THEN 1 ELSE @,
                !.journal_seq = IF journal_seq # 0 THEN journal_seq ELSE @]
        S1 == bch2_dev_usage_update([S EXCEPT !.buckets[dev] = m],
                                    dev, old_m, m)
    IN  IF u.type \notin {KEY_TYPE_alloc, KEY_TYPE_alloc_v2} THEN S
        ELSE IF /\ BTREE_TRIGGER_GC \in flags
                /\ BTREE_TRIGGER_BUCKET_INVALIDATE \notin flags
        THEN S
        ELSE IF u.bucket >= nbuckets THEN S
        ELSE IF /\ BTREE_TRIGGER_BUCKET_INVALIDATE \in flags
                /\ old_m.cached_sectors # 0
        THEN update_cached_sectors(S1, dev, -old_m.cached_sectors)
        ELSE S1

(***************************************************************************)
(* Sector deltas of an extent pointer.  n / d is the pointer's             *)
(* compressed_size / uncompressed_size.                                    *)
(***************************************************************************)
disk_sectors_scaled(n, d, sectors) == (sectors * n + d - 1) \div d

ptr_disk_sectors_delta_split_drops_front(old_size, offset, delta, flags, n, d) ==
    IF BTREE_TRIGGER_OVERWRITE_SPLIT \in flags
    THEN - disk_sectors_scaled(n, d, old_size)
         + disk_sectors_scaled(n, d, old_size - offset + delta)
    ELSE IF BTREE_TRIGGER_OVERWRITE \in flags
    THEN - disk_sectors_scaled(n, d, old_size)
         + disk_sectors_scaled(n, d, old_size + delta)
    ELSE disk_sectors_scaled(n, d, delta)

__ptr_disk_sectors_delta(old_size, offset, delta, flags, n, d) ==
    IF BTREE_TRIGGER_OVERWRITE_SPLIT \in flags
    THEN - disk_sectors_scaled(n, d, old_size)
         + disk_sectors_scaled(n, d, offset)
         + disk_sectors_scaled(n, d, old_size - offset + delta)
    ELSE IF BTREE_TRIGGER_OVERWRITE \in flags
    THEN - disk_sectors_scaled(n, d, old_size)
         + disk_sectors_scaled(n, d, old_size + delta)
    ELSE disk_sectors_scaled(n, d, delta)

\* p.crc.live_size of a pointer of key k is k.size
ptr_disk_sectors_delta(k, p, offset, delta, flags) ==
    __ptr_disk_sectors_delta(k.size, offset, delta, flags,
                             p.compressed_size, p.uncompressed_size)

(***************************************************************************)
(* Stripes, live view.  S.stripes is c->stripes[0]: its domain holds the    *)
(* indices genradix_ptr finds a slot for, each slot a struct stripe whose   *)
(* block_sectors[] are u16.  S.heap_updates counts the calls of             *)
(* bch2_stripes_heap_update, S.heap_dels those of bch2_stripes_heap_del.    *)
(* An erasure coded pointer carries ec = [idx, block].                      *)
(***************************************************************************)
StripeNrBlocks == 6

StripeZero ==
    [alive |-> FALSE, sectors |-> 0, nr_blocks |-> 0, nr_redundant |-> 0,
     blocks_nonempty |-> 0,
     block_sectors |-> [i \in 0..(StripeNrBlocks - 1) |-> 0],
     r |-> ReplicasEntry(BCH_DATA_none, 0, {})]

\* the loop "blocks_nonempty += m->block_sectors[i] != 0" over i < nr_blocks
stripe_blocks_nonempty_stale(m, block_sectors) == m.blocks_nonempty

stripe_blocks_nonempty(m, block_sectors) ==
    Cardinality({ i \in 0..(m.nr_blocks - 1) : block_sectors[i] # 0 })

\* !m alone, the test of m->alive left out
stripe_slot_missing(tbl, idx) == idx \notin DOMAIN tbl

\* !m || !m->alive, m = genradix_ptr(&c->stripes[gc], idx)
stripe_not_alive(tbl, idx) ==
    IF idx \notin DOMAIN tbl THEN TRUE ELSE ~tbl[idx].alive

bch2_mark_stripe_ptr(S, ec, data_type, sectors) ==
    IF stripe_not_alive(S.stripes, ec.idx) THEN [ret |-> EIO, S |-> S]
    ELSE
      LET m == S.stripes[ec.idx]
          bs == [m.block_sectors EXCEPT
                   ![ec.block] = TruncU16(@ + sectors)]
          n == stripe_blocks_nonempty(m, bs)
          S1 == [S EXCEPT
                   !.stripes[ec.idx] = [m EXCEPT !.block_sectors = bs,
                                                 !.blocks_nonempty = n],
                   !.heap_updates = IF m.blocks_nonempty # n THEN @ + 1
                                    ELSE @]
      IN  [ret |-> 0,
           S |-> update_replicas(S1, [m.r EXCEPT !.data_type = data_type],
                                 sectors)]

(***************************************************************************)
(* bch2_mark_extent.  a is [offset, sectors, data_type, journal_seq,       *)
(* flags]; the loop over the key's pointers is MarkExtentPtrs, which       *)
(* carries r.e.devs and dirty_sectors in acc and also lists the sector     *)
(* delta passed to bch2_mark_pointer for each pointer it reached.          *)
(***************************************************************************)
RECURSIVE MarkExtentPtrs(_, _, _, _, _)
MarkExtentPtrs(S, k, a, i, acc) ==
    IF i > Len(k.ptrs)
    THEN [ret |-> 0,
          S |-> IF acc.devs # {}
                THEN update_replicas(S, ReplicasEntry(a.data_type,
                                                      acc.nr_required,
                                                      acc.devs),
                                     acc.dirty_sectors)
                ELSE S,
          deltas |-> acc.deltas, rets |-> acc.rets]
    ELSE
      LET p == k.ptrs[i]
          disk_sectors == IF a.data_type = BCH_DATA_btree THEN a.sectors
                          ELSE ptr_disk_sectors_delta(k, p, a.offset, a.sectors,
                                                      a.flags)
          dirty == ~p.cached /\ ~p.has_ec
          \* what follows bch2_mark_pointer for this pointer: [ret, S]
          After(r) ==
              IF p.cached
              THEN [ret |-> 0,
                    S |-> IF ~(r.ret > 0)
                          THEN update_cached_sectors(r.S, p.dev, disk_sectors)
                          ELSE r.S]
              ELSE IF ~p.has_ec THEN [ret |-> 0, S |-> r.S]
              ELSE bch2_mark_stripe_ptr(r.S, p.ec, a.data_type, disk_sectors)
          acc2(r) == [dirty_sectors |-> IF dirty
                                        THEN acc.dirty_sectors + disk_sectors
                                        ELSE acc.dirty_sectors,
                      devs |-> IF dirty THEN acc.devs \cup {p.dev}
                               ELSE acc.devs,
                      nr_required |-> IF ~p.cached /\ p.has_ec THEN 0
                                      ELSE acc.nr_required,
                      deltas |-> Append(acc.deltas, disk_sectors),
                      rets |-> Append(acc.rets, r.ret)]
          Rest(r, e, a2) ==
              IF e.ret # 0
              THEN [ret |-> e.ret, S |-> e.S,
                    deltas |-> a2.deltas, rets |-> a2.rets]
              ELSE MarkExtentPtrs(e.S, k, a, i + 1, a2)
          Ptr(r) ==
              IF r.ret < 0
              THEN [ret |-> r.ret, S |-> S,
                    deltas |-> Append(acc.deltas, disk_sectors),
                    rets |-> Append(acc.rets, r.ret)]
              ELSE TheOne({ Rest(r, e, a2) :
                              e \in {After(r)}, a2 \in {acc2(r)} })
      IN  TheOne({ Ptr(r) :
                     r \in {bch2_mark_pointer(S, p, disk_sectors, a.data_type,
                                              a.journal_seq)} })

bch2_mark_extent(S, k, offset, sectors, data_type, journal_seq, flags) ==
    MarkExtentPtrs(S, k,
                   [offset |-> offset, sectors |-> sectors,
                    data_type |-> data_type, journal_seq |-> journal_seq,
                    flags |-> flags],
                   1,
                   [dirty_sectors |-> 0, devs |-> {}, nr_required |-> 1,
                    deltas |-> <<>>, rets |-> <<>>])

(***************************************************************************)
(* Keys: [type, start, size, ptrs]; the key's position is its end,         *)
(* start + size.  bch2_mark_key_locked dispatches on the type of new (with *)
(* BTREE_TRIGGER_INSERT) or of old.                                        *)
(***************************************************************************)
KEY_TYPE_deleted == "deleted"
KEY_TYPE_extent == "extent"
KEY_TYPE_btree_ptr == "btree_ptr"
KEY_TYPE_stripe == "stripe"
KEY_TYPE_inode == "inode"
KEY_TYPE_reservation == "reservation"
KEY_TYPE_reflink_p == "reflink_p"
KEY_TYPE_reflink_v == "reflink_v"

Key(type, start, size, ptrs) ==
    [type |-> type, start |-> start, size |-> size, ptrs |-> ptrs]

DeletedKey == Key(KEY_TYPE_deleted, 0, 0, <<>>)

KeyEnd(k) == k.start + k.size

\* A key of the stripes btree: [type, pos, sectors, nr_blocks, nr_redundant,
\* devs, blockcounts], pos the stripe index, devs[i + 1] the device of
\* ptrs[i] and blockcounts[i + 1] what stripe_blockcount_get(s, i) returns.
StripeKey(pos, sectors, nr_redundant, devs, blockcounts) ==
    [type |-> KEY_TYPE_stripe, pos |-> pos, sectors |-> sectors,
     nr_blocks |-> Len(devs), nr_redundant |-> nr_redundant,
     devs |-> devs, blockcounts |-> blockcounts]

\* the deleted key at a position of a btree that is not an extents btree
DeletedAt(pos) == [type |-> KEY_TYPE_deleted, pos |-> pos]

\* bch2_bkey_to_replicas of a stripe key
stripe_to_replicas(k) ==
    ReplicasEntry(BCH_DATA_parity, k.nr_blocks - k.nr_redundant,
                  { k.devs[i] : i \in 1..Len(k.devs) })

\* bch2_mark_stripe in the live view (no BTREE_TRIGGER_GC): [ret, S]
bch2_mark_stripe(S, old, new, journal_seq, flags) ==
    LET idx == new.pos
        old_s == old.type = KEY_TYPE_stripe
        new_s == new.type = KEY_TYPE_stripe
    IN  IF idx \notin DOMAIN S.stripes THEN [ret |-> -1, S |-> S]
        ELSE IF old_s /\ ~S.stripes[idx].alive THEN [ret |-> -1, S |-> S]
        ELSE IF ~new_s
        THEN [ret |-> 0,
              S |-> [S EXCEPT !.stripes[idx] = StripeZero,
                              !.heap_dels = @ + 1]]
        ELSE
          LET m == S.stripes[idx]
              bs == [i \in DOMAIN m.block_sectors |->
                        IF i < new.nr_blocks THEN new.blockcounts[i + 1]
                        ELSE m.block_sectors[i]]
              m2 == [alive |-> TRUE, sectors |-> new.sectors,
                     nr_blocks |-> new.nr_blocks,
                     nr_redundant |-> new.nr_redundant,
                     blocks_nonempty |->
                         Cardinality({ i \in 0..(new.nr_blocks - 1) :
                                         bs[i] # 0 }),
                     block_sectors |-> bs,
                     r |-> stripe_to_replicas(new)]
          IN  [ret |-> 0,
               S |-> [S EXCEPT !.stripes[idx] = m2,
                               !.heap_updates = @ + 1]]

\* a clamp that always gives the lower bound
clamp_t_floor(v, lo, hi) == lo

\* clamp_t(unsigned, v, lo, hi)
clamp_t(v, lo, hi) == Min(Max(v, lo), hi)

bch2_mark_key_locked(S, old, new, offset, sectors, journal_seq, flags) ==
    LET k == IF BTREE_TRIGGER_INSERT \in flags THEN new ELSE old
        Plain(r) == [ret |-> r.ret, S |-> r.S, deltas |-> <<>>, rets |-> <<>>]
    IN  IF k.type = KEY_TYPE_stripe
        THEN Plain(bch2_mark_stripe(S, old, new, journal_seq, flags))
        ELSE IF k.type = KEY_TYPE_btree_ptr
        THEN bch2_mark_extent(S, k, offset,
                              IF BTREE_TRIGGER_OVERWRITE \notin flags
                              THEN BtreeNodeSize ELSE -BtreeNodeSize,
                              BCH_DATA_btree, journal_seq, flags)
        ELSE IF k.type \in {KEY_TYPE_extent, KEY_TYPE_reflink_v}
        THEN bch2_mark_extent(S, k, offset, sectors, BCH_DATA_user,
                              journal_seq, flags)
        ELSE IF k.type \in {KEY_TYPE_alloc, KEY_TYPE_alloc_v2}
        THEN Plain([ret |-> 0,
                    S |-> bch2_mark_alloc(S, 0, new, journal_seq, flags)])
        ELSE IF k.type = KEY_TYPE_inode
        THEN Plain([ret |-> 0,
                    S |-> [S EXCEPT !.c_usage.nr_inodes =
                               @ + (IF new.type = KEY_TYPE_inode
                                    THEN 1 ELSE 0)
                                 - (IF old.type = KEY_TYPE_inode
                                    THEN 1 ELSE 0)]])
        ELSE IF k.type = KEY_TYPE_reservation
        THEN LET total == sectors * k.nr_replicas
                 replicas == clamp_t(k.nr_replicas, 1, BCH_REPLICAS_MAX)
             IN  Plain([ret |-> 0,
                        S |-> [S EXCEPT
                                 !.c_usage.reserved = @ + total,
                                 !.c_usage.persistent_reserved[replicas - 1] =
                                     @ + total]])
        ELSE [ret |-> 0, S |-> S, deltas |-> <<>>, rets |-> <<>>]

bch2_mark_key(S, new, offset, sectors, journal_seq, flags) ==
    bch2_mark_key_locked(S, DeletedKey, new, offset, sectors, journal_seq,
                         {BTREE_TRIGGER_INSERT} \cup flags)

(***************************************************************************)
(* SpecMark and SpecBucket: a sequence of marks on the bucket of device 0. *)
(* A pointer mark is the mark of a key with one uncompressed pointer into  *)
(* the bucket, inserted (delta +size) or overwritten whole (delta -size);  *)
(* a metadata mark is bch2_mark_metadata_bucket; SpecBucket adds the       *)
(* allocation-record mark bch2_mark_alloc.                                 *)
(***************************************************************************)
MaxMarkOps == 3
PtrGens == {0, 1, 2}
MetaSectors == {8, 30000}

ExtentPtr(dev, gen, cached, n, d) ==
    [dev |-> dev, gen |-> gen, cached |-> cached,
     compressed_size |-> n, uncompressed_size |-> d, has_ec |-> FALSE]

\* Keys with one pointer into the bucket of device 0: a small extent at a
\* stale, the current and a newer generation, a large extent, a btree node.
MarkKeys ==
    { Key(KEY_TYPE_extent, 0, 20, <<ExtentPtr(0, g, c, 1, 1)>>) :
        g \in PtrGens, c \in BOOLEAN }
    \cup { Key(KEY_TYPE_extent, 0, 30000, <<ExtentPtr(0, 1, c, 1, 1)>>) :
             c \in BOOLEAN }
    \cup { Key(KEY_TYPE_btree_ptr, 0, BtreeNodeSize,
               <<ExtentPtr(0, 1, FALSE, 1, 1)>>) }

\* Alloc keys: each holds no more sectors than a bucket.
AllocRecords ==
    { [type |-> KEY_TYPE_alloc, bucket |-> 0, gen |-> g,
       data_type |-> x[1], dirty_sectors |-> x[2],
       cached_sectors |-> x[3], stripe |-> 0] :
        g \in {1, 2},
        x \in { <<BCH_DATA_none, 0, 0>>, <<BCH_DATA_user, 30000, 0>>,
                <<BCH_DATA_user, 0, 30000>> } }

MarkState ==
    [buckets |-> buckets, dev_usage |-> dev_usage, c_usage |-> c_usage]

SetMarkState(S) ==
    /\ buckets' = S.buckets
    /\ dev_usage' = S.dev_usage
    /\ c_usage' = S.c_usage

\* Every bucket empty at generation 1, every counter zero.
EmptyMarkState ==
    [buckets |-> [d \in Devs |-> BucketMark(1, BCH_DATA_none, 0, 0, 0, 0)],
     dev_usage |-> [d \in Devs |-> DevUsageZero],
     c_usage |-> MarkUsageZero]

MarkInit ==
    /\ buckets = EmptyMarkState.buckets
    /\ dev_usage = EmptyMarkState.dev_usage
    /\ c_usage = EmptyMarkState.c_usage
    /\ mk_sum = [dirty |-> 0, cached |-> 0]
    /\ btree_keys = {}
    /\ mk_nops = 0
    /\ mk_last = NoCall
    /\ mk_prev = NoCall

\* bch2_mark_key as gc and recovery call it (journal_seq 0), and the
\* overwrite of the whole key.
MarkPointer(k, overwrite) ==
    /\ mk_nops < MaxMarkOps
    /\ \E r \in {IF overwrite
                  THEN bch2_mark_key_locked(MarkState, k, DeletedKey, 0,
                                            -k.size, 0,
                                            {BTREE_TRIGGER_OVERWRITE})
                  ELSE bch2_mark_key(MarkState, k, 0, k.size, 0, {})} :
       LET p == k.ptrs[1]
       IN  /\ SetMarkState(r.S)
           /\ mk_sum' = IF r.rets[1] # 0 THEN mk_sum
                        ELSE IF p.cached
                        THEN [mk_sum EXCEPT !.cached = @ + r.deltas[1]]
                        ELSE [mk_sum EXCEPT !.dirty = @ + r.deltas[1]]
           /\ mk_last' = [op |-> "pointer", key |-> k,
                          overwrite |-> overwrite,
                          sectors |-> r.deltas[1], ret |-> r.rets[1],
                          mark_ret |-> r.ret, pre |-> buckets[0],
                          pre_usage |-> c_usage, pre_dev |-> dev_usage]
    /\ mk_nops' = mk_nops + 1
    /\ UNCHANGED <<btree_keys, mk_prev, markOthers>>

MarkMetadataBucket(data_type, sectors) ==
    /\ mk_nops < MaxMarkOps
    /\ SetMarkState(__bch2_mark_metadata_bucket(MarkState, 0, data_type,
                                                sectors))
    /\ mk_sum' = [mk_sum EXCEPT !.dirty = @ + sectors]
    /\ mk_last' = [op |-> "metadata", data_type |-> data_type,
                   sectors |-> sectors, pre |-> buckets[0]]
    /\ mk_nops' = mk_nops + 1
    /\ UNCHANGED <<btree_keys, mk_prev, markOthers>>

MarkAlloc(u, journal_seq, flags) ==
    /\ mk_nops < MaxMarkOps
    /\ \E S2 \in {bch2_mark_alloc(MarkState, 0, u, journal_seq, flags)} :
          /\ SetMarkState(S2)
          /\ mk_sum' = IF S2 = MarkState THEN mk_sum
                       ELSE [dirty |-> u.dirty_sectors,
                             cached |-> u.cached_sectors]
    /\ mk_last' = [op |-> "alloc", u |-> u, journal_seq |-> journal_seq,
                   flags |-> flags, pre |-> buckets[0],
                   pre_usage |-> c_usage, pre_dev |-> dev_usage]
    /\ mk_nops' = mk_nops + 1
    /\ UNCHANGED <<btree_keys, mk_prev, markOthers>>

MarkNext ==
    \/ \E k \in MarkKeys, o \in BOOLEAN : MarkPointer(k, o)
    \/ \E t \in {BCH_DATA_sb, BCH_DATA_journal}, s \in MetaSectors :
          MarkMetadataBucket(t, s)

BucketNext ==
    \/ MarkNext
    \/ \E u \in AllocRecords :
          \/ MarkAlloc(u, 0, {})
          \/ MarkAlloc(u, 1, {BTREE_TRIGGER_BUCKET_INVALIDATE})

\* C5: after any sequence of pointer and metadata marks on one bucket,
\* dirty_sectors and cached_sectors equal the starting count plus the sum of
\* the deltas the marks applied, clamped at U16_MAX, and are never negative.
C5_CountsAreClampedSum ==
    \A d \in DOMAIN buckets :
        d = 0 =>
            /\ buckets[d].dirty_sectors = Min(mk_sum.dirty, U16_MAX)
            /\ buckets[d].cached_sectors = Min(mk_sum.cached, U16_MAX)
            /\ buckets[d].dirty_sectors >= 0
            /\ buckets[d].cached_sectors >= 0

\* A metadata mark has just saturated the count at the ceiling, after
\* earlier marks that were applied exactly.
C5_Witness ==
    /\ mk_last.op = "metadata"
    /\ mk_sum.dirty > U16_MAX
    /\ buckets[0].dirty_sectors = U16_MAX
    /\ mk_last.pre.dirty_sectors > BucketSize

\* C6 as stated: dirty_sectors + cached_sectors of a bucket never exceeds
\* the device bucket size.
C6_WithinBucketSize ==
    \A d \in DOMAIN buckets : bucket_sectors_used(buckets[d]) <= BucketSize

\* C6 as amended: the ceiling the marks enforce is U16_MAX per count.  A
\* pointer mark that would take its count above U16_MAX is rejected and
\* changes nothing, an accepted one adds its delta exactly; a metadata mark
\* saturates dirty_sectors at U16_MAX; an allocation-record mark installs the
\* record's counts.
C6_CeilingIsU16Max ==
    \A d \in DOMAIN buckets :
        /\ buckets[d].dirty_sectors <= U16_MAX
        /\ buckets[d].cached_sectors <= U16_MAX
        /\ (d = 0 /\ mk_last.op = "pointer") =>
              LET pre == mk_last.pre
                  cached == mk_last.key.ptrs[1].cached
                  was == IF cached THEN pre.cached_sectors
                         ELSE pre.dirty_sectors
                  now == IF cached THEN buckets[d].cached_sectors
                         ELSE buckets[d].dirty_sectors
              IN  /\ was + mk_last.sectors > U16_MAX => mk_last.ret # 0
                  /\ mk_last.ret = 0 => now = was + mk_last.sectors
                  /\ mk_last.ret # 0 => now = was
                  /\ cached => buckets[d].dirty_sectors = pre.dirty_sectors
                  /\ ~cached => buckets[d].cached_sectors = pre.cached_sectors
        /\ (d = 0 /\ mk_last.op = "metadata") =>
              /\ buckets[d].dirty_sectors =
                    Min(mk_last.pre.dirty_sectors + mk_last.sectors, U16_MAX)
              /\ buckets[d].cached_sectors = mk_last.pre.cached_sectors
        /\ (d = 0 /\ mk_last.op = "alloc") =>
              /\ buckets[d].dirty_sectors = mk_last.u.dirty_sectors
              /\ buckets[d].cached_sectors = mk_last.u.cached_sectors

\* The bucket holds more sectors than the device bucket size, put there by
\* marks that were each no larger than a bucket, and a pointer mark that
\* would take the count past U16_MAX has just been rejected.
C6_Witness ==
    /\ mk_last.op = "pointer"
    /\ mk_last.ret = EIO
    /\ mk_last.pre.dirty_sectors + mk_last.sectors > U16_MAX
    /\ bucket_sectors_used(buckets[0]) > BucketSize
    /\ buckets[0] = mk_last.pre

(***************************************************************************)
(* SpecAlloc: allocation-record marks of every kind on the bucket of        *)
(* device 0, between pointer marks and metadata marks.  The alloc keys:     *)
(* with and without sectors, with and without a stripe, of both alloc key   *)
(* types, a deleted key, a key of a bucket beyond the device's nbuckets;    *)
(* marked plainly, on the invalidate path, and with BTREE_TRIGGER_GC.       *)
(***************************************************************************)
MaxAllocOps == 2

AllocSectors == 20

AllocKey(type, bucket, gen, x, stripe) ==
    [type |-> type, bucket |-> bucket, gen |-> gen, data_type |-> x[1],
     dirty_sectors |-> x[2], cached_sectors |-> x[3], stripe |-> stripe]

AllocContents ==
    { <<BCH_DATA_none, 0, 0>>, <<BCH_DATA_user, AllocSectors, 0>>,
      <<BCH_DATA_user, 0, AllocSectors>> }

AllocKeys ==
    { AllocKey(KEY_TYPE_alloc, 0, g, x, st) :
        g \in {1, 2}, x \in AllocContents, st \in {0, 5} }

AllocKeysOdd ==
    { AllocKey(KEY_TYPE_alloc_v2, 0, 2, <<BCH_DATA_user, AllocSectors, 0>>, 5),
      AllocKey(KEY_TYPE_deleted, 0, 2, <<BCH_DATA_user, AllocSectors, 0>>, 5),
      AllocKey(KEY_TYPE_alloc, nbuckets, 2,
               <<BCH_DATA_user, AllocSectors, 0>>, 5) }

AllocPtrKeys ==
    { Key(KEY_TYPE_extent, 0, AllocSectors, <<ExtentPtr(0, 1, c, 1, 1)>>) :
        c \in BOOLEAN }

AllocNext ==
    \/ /\ mk_nops < MaxAllocOps
       /\ \E k \in AllocPtrKeys, o \in BOOLEAN : MarkPointer(k, o)
    \/ /\ mk_nops < MaxAllocOps
       /\ MarkMetadataBucket(BCH_DATA_sb, AllocSectors)
    \/ /\ mk_nops < MaxAllocOps
       /\ \E u \in AllocKeys :
             \/ MarkAlloc(u, 0, {})
             \/ MarkAlloc(u, 1, {BTREE_TRIGGER_BUCKET_INVALIDATE})
             \/ MarkAlloc(u, 0, {BTREE_TRIGGER_GC})
    \/ /\ mk_nops < MaxAllocOps
       /\ \E u \in AllocKeysOdd : MarkAlloc(u, 0, {})

\* C21: a mark that takes the bucket of a device from unavailable to
\* available calls bch2_wake_allocator for that device once; a mark that
\* finds the bucket available or leaves it unavailable does not call it.
C21_WakeupOnBecomingAvailable ==
    [][\A d \in Devs :
          dev_usage'[d].wakeups
            = dev_usage[d].wakeups
              + (IF ~is_available_bucket(buckets[d])
                    /\ is_available_bucket(buckets'[d])
                 THEN 1 ELSE 0)]_vars

\* the overwrite of an extent took the last dirty sectors of the bucket,
\* which holds no stripe: the allocator was woken
C21_Witness ==
    /\ mk_last.op = "pointer"
    /\ mk_last.overwrite
    /\ mk_last.pre.dirty_sectors = AllocSectors
    /\ buckets[0].dirty_sectors = 0
    /\ buckets[0].stripe = 0
    /\ dev_usage[0].wakeups = 1

\* the last call was bch2_mark_alloc, and it returned before the bucket
AllocMarked == mk_last.op = "alloc"

AllocReturnedEarly ==
    \/ mk_last.u.type \notin {KEY_TYPE_alloc, KEY_TYPE_alloc_v2}
    \/ /\ BTREE_TRIGGER_GC \in mk_last.flags
       /\ BTREE_TRIGGER_BUCKET_INVALIDATE \notin mk_last.flags
    \/ mk_last.u.bucket >= nbuckets

\* C28: bch2_mark_alloc of a key that is not an alloc key, with the GC flag
\* and without the invalidate flag, or of a bucket at or beyond nbuckets
\* leaves the bucket, the device usage and the filesystem usage as they
\* were; any other call sets the bucket's gen, data_type, dirty_sectors and
\* cached_sectors to the record's and its stripe bit to (stripe != 0),
\* whatever the mark held before; with the invalidate flag the cached
\* replicas entry of the device drops by the cached_sectors the bucket had,
\* and without it no replicas entry changes.
C28_AllocOverwritesMark ==
    AllocMarked =>
        IF AllocReturnedEarly
        THEN /\ buckets[0] = mk_last.pre
             /\ dev_usage = mk_last.pre_dev
             /\ c_usage = mk_last.pre_usage
        ELSE /\ buckets[0].gen = mk_last.u.gen
             /\ buckets[0].data_type = mk_last.u.data_type
             /\ buckets[0].dirty_sectors = mk_last.u.dirty_sectors
             /\ buckets[0].cached_sectors = mk_last.u.cached_sectors
             /\ buckets[0].stripe = (IF mk_last.u.stripe = 0 THEN 0 ELSE 1)
             /\ \A e \in DOMAIN c_usage.replicas :
                   c_usage.replicas[e]
                     = mk_last.pre_usage.replicas[e]
                       - (IF /\ BTREE_TRIGGER_BUCKET_INVALIDATE
                                  \in mk_last.flags
                             /\ e = bch2_replicas_entry_cached(0)
                          THEN mk_last.pre.cached_sectors ELSE 0)

\* a bucket holding the cached sectors of an extent is invalidated by an
\* alloc key of the next generation that belongs to a stripe
C28_Witness ==
    /\ AllocMarked
    /\ ~AllocReturnedEarly
    /\ BTREE_TRIGGER_BUCKET_INVALIDATE \in mk_last.flags
    /\ mk_last.pre.cached_sectors = AllocSectors
    /\ mk_last.pre.gen = 1
    /\ mk_last.pre.stripe = 0
    /\ mk_last.pre_usage.replicas[bch2_replicas_entry_cached(0)]
         = AllocSectors
    /\ c_usage.replicas[bch2_replicas_entry_cached(0)] = 0
    /\ buckets[0].gen = 2
    /\ buckets[0].cached_sectors = 0
    /\ buckets[0].stripe = 1

(***************************************************************************)
(* SpecGen: pointer marks on the bucket of device 0 across bucket and       *)
(* pointer generations, including generations that compare across the u8    *)
(* wrap, and across data types (user extents and btree nodes).              *)
(***************************************************************************)
BucketGens == {1, 100, 200}

\* against bucket generation 1: 0 is one step stale, 2 newer; against 100:
\* 99 is one step stale, 4 stale by 96, 3 stale by 97, 104 newer; against
\* 200: 199 one step stale, 104 stale by 96, 100 stale by 100, 72 apart by
\* 128, and 0..4 newer across the wrap
GenPtrGens == {0, 1, 2, 3, 4, 72, 99, 100, 104, 199, 200}

GenKeys ==
    { Key(KEY_TYPE_extent, 0, 20, <<ExtentPtr(0, g, c, 1, 1)>>) :
        g \in GenPtrGens, c \in BOOLEAN }
    \cup { Key(KEY_TYPE_btree_ptr, 0, BtreeNodeSize,
               <<ExtentPtr(0, g, FALSE, 1, 1)>>) : g \in BucketGens }

GenInit ==
    /\ \E g \in BucketGens :
          buckets = [d \in Devs |-> BucketMark(g, BCH_DATA_none, 0, 0, 0, 0)]
    /\ dev_usage = EmptyMarkState.dev_usage
    /\ c_usage = EmptyMarkState.c_usage
    /\ mk_sum = [dirty |-> 0, cached |-> 0]
    /\ btree_keys = {}
    /\ mk_nops = 0
    /\ mk_last = NoCall
    /\ mk_prev = NoCall

GenNext == \E k \in GenKeys, o \in BOOLEAN : MarkPointer(k, o)

\* the last call was a pointer mark that left the bucket table, the device
\* usage and the filesystem usage as they were
PointerMarkChangedNothing ==
    /\ buckets[0] = mk_last.pre
    /\ dev_usage = mk_last.pre_dev
    /\ c_usage = mk_last.pre_usage

\* C14: a pointer whose generation is newer than the bucket's in the wrapping
\* 8-bit order ((ptr - bucket) mod 256 in 1..127), or older than the bucket's
\* by more than BUCKET_GC_GEN_MAX ((bucket - ptr) mod 256 in 97..127), is
\* rejected with -EIO, and the bucket's sector counts, the rest of its mark
\* and the usage counters are unchanged.
C14_BadGenerationRejected ==
    mk_last.op = "pointer" =>
        LET g == mk_last.key.ptrs[1].gen
            b == mk_last.pre.gen
            newer == (g - b) % 256 \in 1..127
            too_stale == (b - g) % 256 \in (BUCKET_GC_GEN_MAX + 1)..127
        IN  (newer \/ too_stale) =>
                /\ mk_last.ret = EIO
                /\ mk_last.mark_ret = EIO
                /\ PointerMarkChangedNothing

\* C14 witness: a cached pointer 97 generations behind a bucket that holds
\* sectors was rejected.
C14_Witness ==
    /\ mk_last.op = "pointer"
    /\ mk_last.pre.gen = 100
    /\ mk_last.key.ptrs[1].gen = 3
    /\ mk_last.key.ptrs[1].cached
    /\ mk_last.pre.cached_sectors > 0
    /\ mk_last.ret = EIO
    /\ buckets[0] = mk_last.pre

\* the last call marked a pointer whose generation is one less than the
\* bucket's
OneStepStale ==
    /\ mk_last.op = "pointer"
    /\ (mk_last.key.ptrs[1].gen + 1) % 256 = mk_last.pre.gen

\* C15 as stated: marking a pointer exactly one step stale returns the
\* positive stale indicator, not an error, leaves the bucket mark unchanged
\* and contributes nothing to the replicas ledger.
C15_OneStepStaleIsSoft ==
    OneStepStale =>
        /\ mk_last.ret > 0
        /\ mk_last.mark_ret >= 0
        /\ PointerMarkChangedNothing

\* C15 as amended: a cached pointer exactly one step stale makes
\* bch2_mark_pointer return 1, the mark of the key still returns 0, and the
\* bucket mark, the device usage and the replicas ledger are unchanged; a
\* dirty pointer exactly one step stale is rejected with -EIO, which the
\* mark of the key returns, and changes nothing either.
C15_OneStepStaleCachedIsSoft ==
    OneStepStale =>
        /\ mk_last.key.ptrs[1].cached =>
              /\ mk_last.ret = 1
              /\ mk_last.mark_ret = 0
        /\ ~mk_last.key.ptrs[1].cached =>
              /\ mk_last.ret = EIO
              /\ mk_last.mark_ret = EIO
        /\ PointerMarkChangedNothing

\* C15 witness: a cached pointer of generation 99 was marked into a bucket
\* of generation 100 that already holds cached sectors accounted in the
\* ledger.
C15_Witness ==
    /\ OneStepStale
    /\ mk_last.key.ptrs[1].cached
    /\ mk_last.pre.gen = 100
    /\ mk_last.pre.cached_sectors > 0
    /\ mk_last.ret = 1
    /\ c_usage.cached > 0
    /\ c_usage = mk_last.pre_usage

\* the data type the last pointer mark passed down for its pointer
MarkedDataType ==
    IF mk_last.key.type = KEY_TYPE_btree_ptr THEN BCH_DATA_btree
    ELSE BCH_DATA_user

\* the last call marked a pointer into a bucket whose data type was set and
\* was not the pointer's
MarkedOtherType ==
    /\ mk_last.op = "pointer"
    /\ mk_last.pre.data_type # BCH_DATA_none
    /\ mk_last.pre.data_type # MarkedDataType

\* C16 as stated: marking a pointer of data type T into a bucket whose data
\* type is set and differs from T returns an error and leaves the bucket's
\* mark unchanged; a pointer mark is accepted only when the bucket's data
\* type is unset or equals T.
C16_TypeMismatchIsError ==
    /\ MarkedOtherType =>
          /\ mk_last.ret < 0
          /\ mk_last.mark_ret < 0
          /\ buckets[0] = mk_last.pre
    /\ (mk_last.op = "pointer" /\ mk_last.ret = 0) =>
          mk_last.pre.data_type \in {BCH_DATA_none, MarkedDataType}

\* C16 as amended: when the pointer's generation equals the bucket's, the
\* mismatch returns -EIO and changes nothing; a pointer of another generation
\* is answered by the generation checks before the types are compared, so a
\* stale cached pointer gets the stale indicator 1 and the mark of the key
\* returns 0, a stale dirty or a newer pointer -EIO, and the bucket's mark is
\* unchanged in each case.  A pointer mark is accepted only when the bucket's
\* data type is unset or equals T.
C16_TypeMismatchAtCurrentGen ==
    /\ MarkedOtherType =>
          LET p == mk_last.key.ptrs[1]
              current == p.gen = mk_last.pre.gen
              newer == (p.gen - mk_last.pre.gen) % 256 \in 1..127
              too_stale == (mk_last.pre.gen - p.gen) % 256
                               \in (BUCKET_GC_GEN_MAX + 1)..127
              soft == ~current /\ p.cached /\ ~newer /\ ~too_stale
          IN  /\ PointerMarkChangedNothing
              /\ ~soft => /\ mk_last.ret = EIO
                          /\ mk_last.mark_ret = EIO
              /\ soft => /\ mk_last.ret = 1
                         /\ mk_last.mark_ret = 0
    /\ (mk_last.op = "pointer" /\ mk_last.ret = 0) =>
          mk_last.pre.data_type \in {BCH_DATA_none, MarkedDataType}

\* C16 witness: a user extent with a dirty pointer of the bucket's generation
\* was marked into a bucket that holds a btree node.
C16_Witness ==
    /\ MarkedOtherType
    /\ mk_last.pre.data_type = BCH_DATA_btree
    /\ mk_last.pre.dirty_sectors = BtreeNodeSize
    /\ mk_last.key.type = KEY_TYPE_extent
    /\ ~mk_last.key.ptrs[1].cached
    /\ mk_last.key.ptrs[1].gen = mk_last.pre.gen
    /\ ~mk_last.overwrite
    /\ mk_last.ret = EIO
    /\ buckets[0] = mk_last.pre

(***************************************************************************)
(* SpecLedger: the marks of SpecBucket with a replicas ledger that lacks    *)
(* an entry the marks of device 0 need: the entry of dirty user data on     *)
(* device 0, or the entry of cached data on device 0.                       *)
(***************************************************************************)
PartialLedgers ==
    { ReplicasEntries \ {ReplicasEntry(BCH_DATA_user, 1, {0})},
      ReplicasEntries \ {bch2_replicas_entry_cached(0)} }

LedgerInit ==
    /\ buckets = EmptyMarkState.buckets
    /\ dev_usage = EmptyMarkState.dev_usage
    /\ \E ledger \in PartialLedgers :
          c_usage = [MarkUsageZero EXCEPT !.replicas = [e \in ledger |-> 0]]
    /\ mk_sum = [dirty |-> 0, cached |-> 0]
    /\ btree_keys = {}
    /\ mk_nops = 0
    /\ mk_last = NoCall
    /\ mk_prev = NoCall

\* the replicas entry the last pointer mark passed to update_replicas
MarkedEntry ==
    LET p == mk_last.key.ptrs[1]
    IN  IF p.cached THEN bch2_replicas_entry_cached(p.dev)
        ELSE ReplicasEntry(IF mk_last.key.type = KEY_TYPE_btree_ptr
                           THEN BCH_DATA_btree ELSE BCH_DATA_user,
                           1, {p.dev})

\* C13 as stated: an extent mark whose pointer was accepted and whose
\* replicas entry is not in the ledger returns an error to its caller, and
\* the ledger has not grown.
C13_MissingEntryReported ==
    /\ DOMAIN c_usage.replicas \in PartialLedgers \cup {ReplicasEntries}
    /\ (/\ mk_last.op = "pointer"
        /\ mk_last.ret = 0
        /\ MarkedEntry \notin DOMAIN c_usage.replicas)
          => mk_last.mark_ret # 0

(***************************************************************************)
(* SpecExtent: bch2_mark_update on an extents btree.  btree_keys holds the *)
(* live extents (they never overlap); an update inserts a new extent, or a *)
(* deleted key (a whiteout) to remove a range.  The mark of the new key is *)
(* followed by one overwrite mark per old extent the new key overlaps, and *)
(* the btree then holds the new key and what is left of the old ones.      *)
(***************************************************************************)
MaxExtentOps == 3

\* <<start, size>> of the keys an update may insert
ExtentRanges == { <<0, 4>>, <<1, 2>>, <<0, 2>>, <<2, 2>> }

\* pointer lists: one copy; one copy compressed 4:1; a dirty and a cached
\* copy; a dirty copy and a stale cached copy; a dirty copy and a copy whose
\* generation is newer than its bucket's
ExtentPtrLists ==
    { <<ExtentPtr(0, 1, FALSE, 1, 1)>>,
      <<ExtentPtr(0, 1, FALSE, 1, 4)>>,
      <<ExtentPtr(0, 1, FALSE, 1, 1), ExtentPtr(1, 1, TRUE, 1, 1)>>,
      <<ExtentPtr(0, 1, FALSE, 1, 1), ExtentPtr(1, 0, TRUE, 1, 1)>>,
      <<ExtentPtr(0, 1, FALSE, 1, 1), ExtentPtr(1, 2, FALSE, 1, 1)>> }

NewKeys ==
    { Key(KEY_TYPE_extent, r[1], r[2], ps) :
        r \in ExtentRanges, ps \in ExtentPtrLists }
    \cup { Key(KEY_TYPE_deleted, r[1], r[2], <<>>) : r \in ExtentRanges }

BCH_EXTENT_OVERLAP_ALL == "ALL"
BCH_EXTENT_OVERLAP_BACK == "BACK"
BCH_EXTENT_OVERLAP_FRONT == "FRONT"
BCH_EXTENT_OVERLAP_MIDDLE == "MIDDLE"

\* bch2_extent_overlap(k, m): which part of m the key k covers
bch2_extent_overlap(k, m) ==
    LET cmp1 == KeyEnd(k) < KeyEnd(m)
        cmp2 == k.start > m.start
    IN  IF ~cmp1 /\ ~cmp2 THEN BCH_EXTENT_OVERLAP_ALL
        ELSE IF ~cmp1 THEN BCH_EXTENT_OVERLAP_BACK
        ELSE IF ~cmp2 THEN BCH_EXTENT_OVERLAP_FRONT
        ELSE BCH_EXTENT_OVERLAP_MIDDLE

\* The keys of a set in key order (the order the node iterator visits them).
RECURSIVE KeysInOrder(_)
KeysInOrder(ks) ==
    IF ks = {} THEN <<>>
    ELSE LET first == CHOOSE k \in ks : \A o \in ks : k.start <= o.start
         IN  <<first>> \o KeysInOrder(ks \ {first})

\* the node iterator started at the first key of the node
OldKeysFrom_node_start(keys, new) ==
    KeysInOrder(keys)

\* What bch2_btree_node_iter_peek returns from the position of new's start:
\* the keys that end after it.
OldKeysFrom(keys, new) ==
    KeysInOrder({ o \in keys : KeyEnd(o) > new.start })

\* The while loop of bch2_mark_update over the old keys.
RECURSIVE MarkOverwrites(_, _, _, _, _, _, _, _)
MarkOverwrites(S, olds, i, new, journal_seq, flags, ret, calls) ==
    IF i > Len(olds) THEN [ret |-> ret, S |-> S, calls |-> calls]
    ELSE
      LET old == olds[i]
          overlap == bch2_extent_overlap(new, old)
          offset == IF overlap \in {BCH_EXTENT_OVERLAP_BACK,
                                    BCH_EXTENT_OVERLAP_MIDDLE}
                    THEN new.start - old.start ELSE 0
          sectors == CASE overlap = BCH_EXTENT_OVERLAP_ALL -> - old.size
                       [] overlap = BCH_EXTENT_OVERLAP_BACK ->
                              new.start - KeyEnd(old)
                       [] overlap = BCH_EXTENT_OVERLAP_FRONT ->
                              old.start - KeyEnd(new)
                       [] overlap = BCH_EXTENT_OVERLAP_MIDDLE -> - new.size
          flags2 == flags \cup {BTREE_TRIGGER_OVERWRITE}
                    \cup (IF overlap = BCH_EXTENT_OVERLAP_MIDDLE
                          THEN {BTREE_TRIGGER_OVERWRITE_SPLIT} ELSE {})
          ret2(r) == IF r.ret # 0 THEN r.ret ELSE 1
          call(r) == [old |-> old, overlap |-> overlap, offset |-> offset,
                      sectors |-> sectors, ret |-> r.ret, deltas |-> r.deltas,
                      rets |-> r.rets, pre |-> S.buckets,
                      post |-> r.S.buckets]
          Rest(r, cs) ==
              IF ret2(r) <= 0
              THEN [ret |-> ret2(r), S |-> r.S, calls |-> cs]
              ELSE MarkOverwrites(r.S, olds, i + 1, new, journal_seq, flags2,
                                  ret2(r), cs)
      IN  IF KeyEnd(new) <= old.start
          THEN [ret |-> 0, S |-> S, calls |-> calls]
          ELSE TheOne({ TheOne({ Rest(r, cs) :
                                   cs \in {Append(calls, call(r))} }) :
                          r \in {bch2_mark_key_locked(S, old, new, offset,
                                                      sectors, journal_seq,
                                                      flags2)} })

\* bch2_mark_update for a btree of extents
bch2_mark_update(S, keys, new, journal_seq, flags) ==
    LET Result(ins, r) ==
            [ret |-> r.ret, S |-> r.S, calls |-> r.calls,
             insert |-> [ret |-> ins.ret, deltas |-> ins.deltas,
                         rets |-> ins.rets]]
        Overwrites(ins, olds) ==
            TheOne({ Result(ins, r) :
                       r \in {MarkOverwrites(ins.S, olds, 1, new, journal_seq,
                                             flags, 0, <<>>)} })
    IN  TheOne({ Overwrites(ins, olds) :
                   ins \in {bch2_mark_key_locked(S, DeletedKey, new, 0,
                                                 new.size, journal_seq,
                                                 {BTREE_TRIGGER_INSERT}
                                                     \cup flags)},
                   olds \in {OldKeysFrom(keys, new)} })

\* The btree after the update: each old extent keeps the parts the new key
\* does not cover; the new key is stored unless it is a whiteout.
ExtentPieces(old, new) ==
    (IF old.start < new.start
     THEN {[old EXCEPT !.size = Min(KeyEnd(old), new.start) - old.start]}
     ELSE {})
    \cup
    (IF KeyEnd(old) > KeyEnd(new)
     THEN {[old EXCEPT !.start = Max(old.start, KeyEnd(new)),
                       !.size = KeyEnd(old) - Max(old.start, KeyEnd(new))]}
     ELSE {})

BtreeInsertExtent(keys, new) ==
    UNION { ExtentPieces(o, new) : o \in keys }
    \cup (IF new.type = KEY_TYPE_extent THEN {new} ELSE {})

ExtentInit ==
    /\ buckets = EmptyMarkState.buckets
    /\ dev_usage = EmptyMarkState.dev_usage
    /\ c_usage = EmptyMarkState.c_usage
    /\ btree_keys = {}
    /\ mk_sum = [dirty |-> 0, cached |-> 0]
    /\ mk_nops = 0
    /\ mk_last = NoCall
    /\ mk_prev = NoCall

\* journal_seq is trans->journal_res.seq
MarkUpdate(new, journal_seq) ==
    /\ mk_nops < MaxExtentOps
    /\ \E r \in {bch2_mark_update(MarkState, btree_keys, new, journal_seq,
                                   {})} :
           /\ SetMarkState(r.S)
           /\ mk_last' = [op |-> "update", new |-> new, ret |-> r.ret,
                          insert |-> r.insert, calls |-> r.calls,
                          pre |-> MarkState]
    /\ btree_keys' = BtreeInsertExtent(btree_keys, new)
    /\ mk_prev' = mk_last
    /\ mk_nops' = mk_nops + 1
    /\ UNCHANGED <<mk_sum, markOthers>>

ExtentNext == \E new \in NewKeys : MarkUpdate(new, 1)

BucketCounts(m) ==
    [dirty_sectors |-> m.dirty_sectors, cached_sectors |-> m.cached_sectors,
     data_type |-> m.data_type]

\* The last two updates are a round trip: an extent inserted over free key
\* space, its mark accepted, then a whiteout covering exactly that extent.
RoundTrip ==
    /\ mk_prev.op = "update"
    /\ mk_last.op = "update"
    /\ mk_prev.new.type = KEY_TYPE_extent
    /\ mk_prev.calls = <<>>
    /\ mk_prev.insert.ret = 0
    /\ mk_last.new = Key(KEY_TYPE_deleted, mk_prev.new.start,
                         mk_prev.new.size, <<>>)

\* C7: marking an extent's insert and then its exact removal (the overwrite of
\* the whole key: offset 0, sectors = -size) returns every bucket's
\* dirty_sectors, cached_sectors and data_type and every usage counter of the
\* replicas ledger to their values before the insert.
C7_InsertThenRemoveRestores ==
    RoundTrip =>
        /\ Len(mk_last.calls) = 1
        /\ mk_last.calls[1].old = mk_prev.new
        /\ mk_last.calls[1].offset = 0
        /\ mk_last.calls[1].sectors = - mk_prev.new.size
        /\ mk_last.calls[1].ret = 0
        /\ \A d \in Devs :
              BucketCounts(buckets[d]) = BucketCounts(mk_prev.pre.buckets[d])
        /\ c_usage = mk_prev.pre.c_usage

\* A round trip of an extent with a dirty and a cached copy, into buckets
\* that already held sectors of another extent.
C7_Witness ==
    /\ RoundTrip
    /\ Len(mk_prev.new.ptrs) = 2
    /\ mk_prev.new.ptrs[2].cached
    /\ mk_prev.insert.rets = <<0, 0>>
    /\ mk_prev.pre.buckets[0].dirty_sectors > 0
    /\ mk_prev.pre.buckets[1].cached_sectors > 0

RECURSIVE SumAbs(_)
SumAbs(s) == IF s = <<>> THEN 0 ELSE Abs(Head(s)) + SumAbs(Tail(s))

MiddleSplits ==
    IF mk_last.op # "update" THEN {}
    ELSE { i \in 1..Len(mk_last.calls) :
             mk_last.calls[i].overlap = BCH_EXTENT_OVERLAP_MIDDLE }

\* C8 as stated: a middle-split overwrite of an extent by a new extent of
\* length L2 produces exactly two deltas whose magnitudes sum to L2.
C8_SplitTwoDeltasSumToL2 ==
    \A i \in MiddleSplits :
        /\ Len(mk_last.calls[i].deltas) = 2
        /\ SumAbs(mk_last.calls[i].deltas) = mk_last.new.size

\* C8 as amended: a middle-split overwrite of an extent of length L at
\* offset O by a new extent of length L2 is one overwrite mark (offset O,
\* sectors -L2) that passes one delta for each pointer of the old extent it
\* marks, - scaled(L) + scaled(O) + scaled(L - O - L2); for an uncompressed
\* pointer the delta is -L2 and, when the pointer is accepted, its bucket's
\* count drops by exactly L2.
C8_SplitOneDeltaPerPointer ==
    \A i \in MiddleSplits :
        LET call == mk_last.calls[i]
            old == call.old
            L == old.size
            O == call.offset
            L2 == mk_last.new.size
        IN  /\ O = mk_last.new.start - old.start
            /\ call.sectors = - L2
            /\ O > 0 /\ O + L2 < L
            /\ Len(call.deltas) <= Len(old.ptrs)
            /\ call.ret = 0 => Len(call.deltas) = Len(old.ptrs)
            /\ \A j \in 1..Len(call.deltas) :
                 LET p == old.ptrs[j]
                     n == p.compressed_size
                     d == p.uncompressed_size
                     was == IF p.cached THEN call.pre[p.dev].cached_sectors
                            ELSE call.pre[p.dev].dirty_sectors
                     now == IF p.cached THEN call.post[p.dev].cached_sectors
                            ELSE call.post[p.dev].dirty_sectors
                 IN  /\ call.deltas[j] = - disk_sectors_scaled(n, d, L)
                                         + disk_sectors_scaled(n, d, O)
                                         + disk_sectors_scaled(n, d, L - O - L2)
                     /\ n = d => call.deltas[j] = - L2
                     /\ (n = d /\ call.rets[j] = 0) => now = was - L2
                     /\ call.rets[j] # 0 => now = was

\* A middle split of an extent with two accepted uncompressed pointers.
C8_Witness ==
    \E i \in MiddleSplits :
        /\ mk_last.calls[i].ret = 0
        /\ mk_last.calls[i].rets = <<0, 0>>
        /\ mk_last.calls[i].deltas = <<- mk_last.new.size, - mk_last.new.size>>
        /\ mk_last.calls[i].offset = 1

\* the overwrite marks of the last update
OverwriteCalls ==
    IF mk_last.op # "update" THEN {}
    ELSE 1..Len(mk_last.calls)

\* the sectors of old that new covers, and where the covered range starts
Intersection(old, new) ==
    Min(KeyEnd(old), KeyEnd(new)) - Max(old.start, new.start)

CoveredStart(old, new) == Max(old.start, new.start)

\* sectors of pointer p in the buckets bs
PtrSectors(bs, p) ==
    IF p.cached THEN bs[p.dev].cached_sectors ELSE bs[p.dev].dirty_sectors

\* the overwrite mark passes -intersection at the offset of the covered range
OverwriteArgsAreIntersection(call) ==
    /\ call.sectors < 0
    /\ - call.sectors = Intersection(call.old, mk_last.new)
    /\ call.offset = CoveredStart(call.old, mk_last.new) - call.old.start
    /\ call.overlap = BCH_EXTENT_OVERLAP_ALL
          => call.offset = 0 /\ - call.sectors = call.old.size
    /\ call.overlap = BCH_EXTENT_OVERLAP_FRONT => call.offset = 0
    /\ call.overlap = BCH_EXTENT_OVERLAP_MIDDLE
          => - call.sectors = mk_last.new.size

\* C27 as stated: every overwrite mark for a new extent passes -intersection
\* at the offset of the covered range, and the bucket of every uncompressed
\* pointer of the old extent drops by the intersection.
C27_OverlapDropsIntersection ==
    \A i \in OverwriteCalls :
        LET call == mk_last.calls[i]
        IN  mk_last.new.type = KEY_TYPE_extent =>
            /\ OverwriteArgsAreIntersection(call)
            /\ \A j \in 1..Len(call.old.ptrs) :
                  LET p == call.old.ptrs[j]
                  IN  p.compressed_size = p.uncompressed_size
                        => PtrSectors(call.post, p)
                             = PtrSectors(call.pre, p)
                                 - Intersection(call.old, mk_last.new)

\* C27: every overwrite mark of bch2_mark_update (full replace, back
\* truncate, front truncate, middle split) passes a negative delta whose
\* magnitude is the intersection of the old and the new extent, at the
\* offset of the covered range from the old extent's start; the delta of an
\* uncompressed pointer is minus the intersection, and the bucket of an
\* uncompressed pointer that the mark accepts drops by exactly the
\* intersection, while a pointer that is stale or faulty leaves its bucket
\* as it was.
C27_OverlapDropsIntersectionWhenAccepted ==
    \A i \in OverwriteCalls :
        LET call == mk_last.calls[i]
            inter == Intersection(call.old, mk_last.new)
        IN  /\ OverwriteArgsAreIntersection(call)
            /\ Len(call.deltas) <= Len(call.old.ptrs)
            /\ \A j \in 1..Len(call.deltas) :
                  LET p == call.old.ptrs[j]
                  IN  /\ p.compressed_size = p.uncompressed_size
                            => call.deltas[j] = - inter
                      /\ (p.compressed_size = p.uncompressed_size
                             /\ call.rets[j] = 0)
                            => PtrSectors(call.post, p)
                                 = PtrSectors(call.pre, p) - inter
                      /\ call.rets[j] # 0
                            => PtrSectors(call.post, p)
                                 = PtrSectors(call.pre, p)

\* one update that truncates the back of one extent and the front of the
\* next, each with an accepted uncompressed pointer
C27_Witness ==
    /\ mk_last.op = "update"
    /\ Len(mk_last.calls) = 2
    /\ mk_last.calls[1].overlap = BCH_EXTENT_OVERLAP_BACK
    /\ mk_last.calls[2].overlap = BCH_EXTENT_OVERLAP_FRONT
    /\ mk_last.calls[1].offset = 1 /\ mk_last.calls[1].sectors = -1
    /\ mk_last.calls[2].offset = 0 /\ mk_last.calls[2].sectors = -1
    /\ mk_last.calls[1].rets[1] = 0 /\ mk_last.calls[2].rets[1] = 0
    /\ mk_last.calls[1].deltas[1] = -1
    /\ mk_last.calls[2].post[0].dirty_sectors
         = mk_last.calls[1].pre[0].dirty_sectors - 2

(***************************************************************************)
(* The transactional marks.  T = [updates, deltas] is the transaction:      *)
(* updates maps <<btree, pos>> to the key bch2_trans_update queued there,   *)
(* deltas is trans->fs_usage_deltas (size 0 standing for the NULL pointer). *)
(* L = [buckets, btrees] is what the marks read of the live state.  A call  *)
(* results in [ret, bug, T]; bug is TRUE when it ran into BUG_ON.           *)
(* krealloc_ok says whether the krealloc of this call succeeds.  Failures   *)
(* of bch2_trans_kmalloc and of the btree iterators are not carried.        *)
(***************************************************************************)
BTREE_ID_EC == "EC"
BTREE_ID_REFLINK == "REFLINK"
BTREE_ID_ALLOC == "ALLOC"
BTREE_ID_INODES == "INODES"


\* replicas_entry_bytes(r): the three header bytes and one byte per device
replicas_entry_bytes(r) == 3 + Cardinality(r.devs)

\* replicas_deltas_realloc(trans, more): [bug, d]
replicas_deltas_realloc(d, more, krealloc_ok) ==
    LET new_size == IF d.size # 0 THEN (d.size + more) * 2 ELSE 128
    IN  IF d.size = 0 \/ d.used + more > d.size
        THEN IF krealloc_ok
             THEN [bug |-> FALSE, d |-> [d EXCEPT !.size = new_size]]
             ELSE [bug |-> TRUE, d |-> d]
        ELSE [bug |-> FALSE, d |-> d]

\* update_replicas_list(trans, r, sectors): [bug, T]
update_replicas_list(T, r, sectors, krealloc_ok) ==
    IF sectors = 0 THEN [bug |-> FALSE, T |-> T]
    ELSE
      LET b == replicas_entry_bytes(r) + 8
          Add(a) ==
              IF a.bug THEN [bug |-> TRUE, T |-> T]
              ELSE [bug |-> FALSE,
                    T |-> [T EXCEPT !.deltas =
                             [a.d EXCEPT
                                !.d = Append(@, [r |-> r, delta |-> sectors]),
                                !.used = @ + b]]]
      IN  TheOne({ Add(a) :
                     a \in {replicas_deltas_realloc(T.deltas, b,
                                                    krealloc_ok)} })

update_cached_sectors_list(T, dev, sectors, krealloc_ok) ==
    update_replicas_list(T, bch2_replicas_entry_cached(dev), sectors,
                         krealloc_ok)

\* bch2_trans_update dropped: the update is not queued
bch2_trans_update_dropped(T, btree, pos, k) == T

\* bch2_trans_update(trans, iter, k, 0), iter at pos of btree
bch2_trans_update(T, btree, pos, k) ==
    [T EXCEPT !.updates =
        [x \in DOMAIN @ \cup {<<btree, pos>>} |->
            IF x = <<btree, pos>> THEN k ELSE @[x]]]

\* the alloc key of a bucket with its sector counts left out
alloc_mem_to_key_blank(m) ==
    [type |-> KEY_TYPE_alloc, gen |-> m.gen, data_type |-> m.data_type,
     dirty_sectors |-> 0, cached_sectors |-> 0,
     stripe |-> 0, stripe_redundancy |-> 0]

\* alloc_mem_to_key: the alloc key of a bucket as its live mark has it
alloc_mem_to_key(m) ==
    [type |-> KEY_TYPE_alloc, gen |-> m.gen, data_type |-> m.data_type,
     dirty_sectors |-> m.dirty_sectors, cached_sectors |-> m.cached_sectors,
     stripe |-> 0, stripe_redundancy |-> 0]

\* the unpacked key built from the live bucket whatever is pending
bch2_trans_start_alloc_update_live(T, L, dev) ==
    [alloc_mem_to_key(L.buckets[dev]) EXCEPT
       !.stripe = L.g_stripe[dev].stripe,
       !.stripe_redundancy = L.g_stripe[dev].stripe_redundancy]

\* bch2_trans_start_alloc_update: the unpacked key u of the bucket of dev,
\* from the pending update of the bucket or else from the live bucket, its
\* mark and its stripe back-reference
bch2_trans_start_alloc_update(T, L, dev) ==
    IF <<BTREE_ID_ALLOC, dev>> \in DOMAIN T.updates
    THEN T.updates[<<BTREE_ID_ALLOC, dev>>]
    ELSE [alloc_mem_to_key(L.buckets[dev]) EXCEPT
            !.stripe = L.g_stripe[dev].stripe,
            !.stripe_redundancy = L.g_stripe[dev].stripe_redundancy]

\* bch2_trans_mark_pointer: [ret, T]
bch2_trans_mark_pointer(T, L, p, sectors, data_type) ==
    LET u == bch2_trans_start_alloc_update(T, L, p.dev)
        Pack(r) ==
            IF r.ret # 0 THEN [ret |-> r.ret, T |-> T]
            ELSE [ret |-> 0,
                  T |-> bch2_trans_update(
                            T, BTREE_ID_ALLOC, p.dev,
                            [u EXCEPT !.data_type = r.data_type,
                                      !.dirty_sectors = r.dirty_sectors,
                                      !.cached_sectors = r.cached_sectors])]
    IN  TheOne({ Pack(r) :
                   r \in {__mark_pointer(p, sectors, data_type, u.gen,
                                         u.data_type, u.dirty_sectors,
                                         u.cached_sectors)} })

btree_node_type_is_extents(btree) == btree = BTREE_ID_REFLINK

\* trans_get_update: the positions of the transaction's updates that match
\* pos; an update of an extents btree is queued at the start of its key
trans_get_update(T, btree, pos) ==
    { x \in DOMAIN T.updates :
        /\ x[1] = btree
        /\ IF btree_node_type_is_extents(btree)
           THEN pos >= T.updates[x].start /\ pos < KeyEnd(T.updates[x])
           ELSE x[2] = pos }

\* __bch2_btree_iter_peek with BTREE_ITER_SLOTS: the key at pos; an extents
\* btree is held as the keys and holes that cover it, by start offset
btree_iter_peek_slot(bt, btree, pos) ==
    IF btree_node_type_is_extents(btree)
    THEN bt[CHOOSE st \in DOMAIN bt : st <= pos /\ pos < KeyEnd(bt[st])]
    ELSE bt[pos]

\* trans_get_key: the key of the transaction's update at pos if there is
\* one, else the key in the btree
trans_get_key(T, L, btree, pos) ==
    LET u == trans_get_update(T, btree, pos)
    IN  IF u # {} THEN T.updates[CHOOSE x \in u : TRUE]
        ELSE btree_iter_peek_slot(L.btrees[btree], btree, pos)

\* bch2_ptr_matches_stripe: the pointer names a data block of the stripe and
\* the device of that block
bch2_ptr_matches_stripe(s, p) ==
    /\ p.ec.block < s.nr_blocks - s.nr_redundant
    /\ s.devs[p.ec.block + 1] = p.dev

\* bch2_trans_mark_stripe_ptr: [ret, bug, T]
bch2_trans_mark_stripe_ptr(T, L, p, sectors, data_type, krealloc_ok) ==
    LET k == trans_get_key(T, L, BTREE_ID_EC, p.ec.idx)
    IN  IF k.type # KEY_TYPE_stripe
        THEN [ret |-> EIO, bug |-> FALSE, T |-> T]
        ELSE IF ~bch2_ptr_matches_stripe(k, p)
        THEN [ret |-> EIO, bug |-> FALSE, T |-> T]
        ELSE
          LET s == [k EXCEPT !.blockcounts[p.ec.block + 1] =
                                 TruncU16(@ + sectors)]
              Listed(a) == [ret |-> 0, bug |-> a.bug, T |-> a.T]
          IN  TheOne({ Listed(a) :
                         a \in {update_replicas_list(
                                    bch2_trans_update(T, BTREE_ID_EC,
                                                      p.ec.idx, s),
                                    [stripe_to_replicas(s) EXCEPT
                                        !.data_type = data_type],
                                    sectors, krealloc_ok)} })

\* bch2_trans_mark_extent; a is [offset, sectors, flags, data_type,
\* krealloc_ok], acc carries r.e and dirty_sectors: [ret, bug, T]
RECURSIVE TransMarkExtentPtrs(_, _, _, _, _, _)
TransMarkExtentPtrs(T, L, k, a, i, acc) ==
    IF i > Len(k.ptrs)
    THEN IF acc.devs # {}
         THEN TheOne({ [ret |-> 0, bug |-> u.bug, T |-> u.T] :
                         u \in {update_replicas_list(
                                    T, ReplicasEntry(a.data_type,
                                                     acc.nr_required,
                                                     acc.devs),
                                    acc.dirty_sectors, a.krealloc_ok)} })
         ELSE [ret |-> 0, bug |-> FALSE, T |-> T]
    ELSE
      LET p == k.ptrs[i]
          disk_sectors == IF a.data_type = BCH_DATA_btree THEN a.sectors
                          ELSE ptr_disk_sectors_delta(k, p, a.offset, a.sectors,
                                                      a.flags)
          dirty == ~p.cached /\ ~p.has_ec
          After(r) ==
              IF p.cached
              THEN IF ~(r.ret > 0)
                   THEN TheOne({ [ret |-> 0, bug |-> u.bug, T |-> u.T] :
                                   u \in {update_cached_sectors_list(
                                              r.T, p.dev, disk_sectors,
                                              a.krealloc_ok)} })
                   ELSE [ret |-> 0, bug |-> FALSE, T |-> r.T]
              ELSE IF ~p.has_ec THEN [ret |-> 0, bug |-> FALSE, T |-> r.T]
              ELSE bch2_trans_mark_stripe_ptr(r.T, L, p, disk_sectors,
                                              a.data_type, a.krealloc_ok)
          acc2 == [dirty_sectors |-> IF dirty
                                     THEN acc.dirty_sectors + disk_sectors
                                     ELSE acc.dirty_sectors,
                   devs |-> IF dirty THEN acc.devs \cup {p.dev} ELSE acc.devs,
                   nr_required |-> IF ~p.cached /\ p.has_ec THEN 0
                                   ELSE acc.nr_required]
          Rest(e) ==
              IF e.bug \/ e.ret # 0 THEN e
              ELSE TransMarkExtentPtrs(e.T, L, k, a, i + 1, acc2)
          Ptr(r) ==
              IF r.ret < 0 THEN [ret |-> r.ret, bug |-> FALSE, T |-> r.T]
              ELSE TheOne({ Rest(e) : e \in {After(r)} })
      IN  TheOne({ Ptr(r) :
                     r \in {bch2_trans_mark_pointer(T, L, p, disk_sectors,
                                                    a.data_type)} })

bch2_trans_mark_extent(T, L, k, offset, sectors, flags, data_type, krealloc_ok) ==
    TransMarkExtentPtrs(T, L, k,
                        [offset |-> offset, sectors |-> sectors,
                         flags |-> flags, data_type |-> data_type,
                         krealloc_ok |-> krealloc_ok],
                        1,
                        [dirty_sectors |-> 0, devs |-> {},
                         nr_required |-> 1])

\* bch2_trans_mark_stripe_alloc_ref of block idx of stripe key s: [ret, T]
bch2_trans_mark_stripe_alloc_ref(T, L, s, idx, deleting) ==
    LET dev == s.devs[idx + 1]
        u == bch2_trans_start_alloc_update(T, L, dev)
        parity == idx >= s.nr_blocks - s.nr_redundant
        sectors == IF deleting THEN -s.sectors ELSE s.sectors
        dirty == TruncU16(u.dirty_sectors + sectors)
        u1 == IF parity
              THEN [u EXCEPT !.dirty_sectors = dirty,
                             !.data_type = IF dirty # 0 THEN BCH_DATA_parity
                                           ELSE BCH_DATA_none]
              ELSE u
    IN  IF ~deleting /\ u1.stripe # 0 /\ u1.stripe # s.pos
        THEN [ret |-> EIO, T |-> T]
        ELSE [ret |-> 0,
              T |-> bch2_trans_update(
                        T, BTREE_ID_ALLOC, dev,
                        IF ~deleting
                        THEN [u1 EXCEPT !.stripe = s.pos,
                                        !.stripe_redundancy = s.nr_redundant]
                        ELSE [u1 EXCEPT !.stripe = 0,
                                        !.stripe_redundancy = 0])]

\* the loop of bch2_trans_mark_stripe over blocks i .. nr_blocks - 1
RECURSIVE TransMarkStripeBlocks(_, _, _, _, _)
TransMarkStripeBlocks(T, L, s, i, deleting) ==
    IF i >= s.nr_blocks THEN [ret |-> 0, T |-> T]
    ELSE
      LET Step(r) == IF r.ret # 0 THEN r
                     ELSE TransMarkStripeBlocks(r.T, L, s, i + 1, deleting)
      IN  TheOne({ Step(r) :
                     r \in {bch2_trans_mark_stripe_alloc_ref(T, L, s, i,
                                                             deleting)} })

\* one half of bch2_trans_mark_stripe: the replicas delta of stripe key s
\* and its allocation references: [ret, bug, T]
TransMarkStripeHalf(T, L, s, deleting, krealloc_ok) ==
    LET sectors == IF deleting THEN -s.sectors ELSE s.sectors
        Blocks(a) ==
            IF a.bug THEN [ret |-> 0, bug |-> TRUE, T |-> a.T]
            ELSE TheOne({ [ret |-> r.ret, bug |-> FALSE, T |-> r.T] :
                            r \in {TransMarkStripeBlocks(a.T, L, s, 0,
                                                         deleting)} })
    IN  TheOne({ Blocks(a) :
                   a \in {update_replicas_list(T, stripe_to_replicas(s),
                                               sectors * s.nr_redundant,
                                               krealloc_ok)} })

\* bch2_trans_mark_stripe: [ret, bug, T]
bch2_trans_mark_stripe(T, L, old, new, flags, krealloc_ok) ==
    LET old_s == old.type = KEY_TYPE_stripe
        new_s == new.type = KEY_TYPE_stripe
        Old(r) ==
            IF r.bug \/ r.ret # 0 THEN r
            ELSE IF old_s
            THEN TransMarkStripeHalf(r.T, L, old, TRUE, krealloc_ok)
            ELSE r
    IN  IF /\ new_s /\ old_s
           /\ new.nr_blocks = old.nr_blocks
           /\ new.nr_redundant = old.nr_redundant
           /\ new.devs = old.devs
        THEN [ret |-> 0, bug |-> FALSE, T |-> T]
        ELSE TheOne({ Old(r) :
                        r \in {IF new_s
                               THEN TransMarkStripeHalf(T, L, new, FALSE,
                                                        krealloc_ok)
                               ELSE [ret |-> 0, bug |-> FALSE, T |-> T]} })

\* Keys of the other types: an inode key [type, pos]; a reservation
\* [type, start, size, nr_replicas]; a reflink pointer [type, start, size,
\* idx]; an indirect extent [type, start, size, ptrs, refcount]
InodeKey(pos) == [type |-> KEY_TYPE_inode, pos |-> pos]

ReservationKey(start, size, nr_replicas) ==
    [type |-> KEY_TYPE_reservation, start |-> start, size |-> size,
     nr_replicas |-> nr_replicas]

ReflinkP(start, size, idx) ==
    [type |-> KEY_TYPE_reflink_p, start |-> start, size |-> size,
     idx |-> idx]

ReflinkV(start, size, refcount) ==
    [type |-> KEY_TYPE_reflink_v, start |-> start, size |-> size,
     ptrs |-> <<>>, refcount |-> refcount]

\* a hole of an extents btree
Hole(start, size) == Key(KEY_TYPE_deleted, start, size, <<>>)

\* __bch2_trans_mark_reflink_p: [ret, T], ret the sectors done or an error
trans_mark_reflink_p_step(T, L, idx, sectors, flags) ==
    LET k == trans_get_key(T, L, BTREE_ID_REFLINK, idx)
        add == IF BTREE_TRIGGER_OVERWRITE \notin flags THEN 1 ELSE -1
    IN  IF /\ BTREE_TRIGGER_OVERWRITE \in flags
           /\ (k.start < idx \/ KeyEnd(k) > idx + sectors)
        THEN [ret |-> sectors, T |-> T]
        ELSE IF k.type # KEY_TYPE_reflink_v
        THEN [ret |-> EIO, T |-> T]
        ELSE [ret |-> KeyEnd(k) - idx,
              T |-> bch2_trans_update(
                        T, BTREE_ID_REFLINK, k.start,
                        IF k.refcount + add = 0
                        THEN Hole(k.start, k.size)
                        ELSE [k EXCEPT !.refcount = @ + add])]

RECURSIVE TransMarkReflinkLoop(_, _, _, _, _)
TransMarkReflinkLoop(T, L, idx, sectors, flags) ==
    IF sectors = 0 THEN [ret |-> 0, bug |-> FALSE, T |-> T]
    ELSE
      LET Step(r) ==
              IF r.ret < 0 THEN [ret |-> r.ret, bug |-> FALSE, T |-> r.T]
              ELSE TransMarkReflinkLoop(r.T, L, idx + r.ret,
                                        Max(0, sectors - r.ret), flags)
      IN  TheOne({ Step(r) :
                     r \in {trans_mark_reflink_p_step(T, L, idx, sectors,
                                                      flags)} })

\* bch2_trans_mark_reflink_p: [ret, bug, T]
bch2_trans_mark_reflink_p(T, L, p, offset, sectors, flags) ==
    TransMarkReflinkLoop(T, L, p.idx + offset, Abs(sectors), flags)

\* bch2_trans_mark_key: [ret, bug, T]
bch2_trans_mark_key(T, L, old, new, offset, sectors, flags, krealloc_ok) ==
    LET k == IF BTREE_TRIGGER_INSERT \in flags THEN new ELSE old
        Counted(a, d) ==
            IF a.bug THEN [ret |-> 0, bug |-> TRUE, T |-> T]
            ELSE [ret |-> 0, bug |-> FALSE, T |-> [T EXCEPT !.deltas = d]]
    IN  IF k.type = KEY_TYPE_btree_ptr
        THEN bch2_trans_mark_extent(T, L, k, offset,
                                    IF BTREE_TRIGGER_OVERWRITE \notin flags
                                    THEN BtreeNodeSize ELSE -BtreeNodeSize,
                                    flags, BCH_DATA_btree, krealloc_ok)
        ELSE IF k.type \in {KEY_TYPE_extent, KEY_TYPE_reflink_v}
        THEN bch2_trans_mark_extent(T, L, k, offset, sectors, flags,
                                    BCH_DATA_user, krealloc_ok)
        ELSE IF k.type = KEY_TYPE_stripe
        THEN bch2_trans_mark_stripe(T, L, old, new, flags, krealloc_ok)
        ELSE IF k.type = KEY_TYPE_inode
        THEN LET nr == (IF new.type = KEY_TYPE_inode THEN 1 ELSE 0)
                       - (IF old.type = KEY_TYPE_inode THEN 1 ELSE 0)
                 a == replicas_deltas_realloc(T.deltas, 0, krealloc_ok)
             IN  IF nr # 0
                 THEN Counted(a, [a.d EXCEPT !.nr_inodes = @ + nr])
                 ELSE [ret |-> 0, bug |-> FALSE, T |-> T]
        ELSE IF k.type = KEY_TYPE_reservation
        THEN LET a == replicas_deltas_realloc(T.deltas, 0, krealloc_ok)
                 replicas == clamp_t(k.nr_replicas, 1, BCH_REPLICAS_MAX)
             IN  Counted(a, [a.d EXCEPT
                               !.persistent_reserved[replicas - 1] =
                                   @ + sectors * k.nr_replicas])
        ELSE IF k.type = KEY_TYPE_reflink_p
        THEN bch2_trans_mark_reflink_p(T, L, k, offset, sectors, flags)
        ELSE [ret |-> 0, bug |-> FALSE, T |-> T]

(***************************************************************************)
(* SpecStripe: stripes and erasure coded pointers.  The EC btree holds at   *)
(* most one stripe key, at index 0; slot 1 of c->stripes exists but never   *)
(* holds an alive stripe, and index 2 lies beyond the slots.  Extents carry *)
(* one erasure coded pointer into the bucket of device 0.                   *)
(***************************************************************************)
MaxStripeOps == 3

StripeSectors == 100

StripeDevs == [i \in 1..StripeNrBlocks |-> (i - 1) % 2]

\* the stripe keys written at index 0: every block full, or every block empty
StripeKeys ==
    { StripeKey(0, StripeSectors, 2, StripeDevs,
                [i \in 1..StripeNrBlocks |-> n]) : n \in {0, StripeSectors} }

EcPtr(dev, gen, idx, block) ==
    [dev |-> dev, gen |-> gen, cached |-> FALSE,
     compressed_size |-> 1, uncompressed_size |-> 1, has_ec |-> TRUE,
     ec |-> [idx |-> idx, block |-> block]]

EcExtents ==
    { Key(KEY_TYPE_extent, 0, StripeSectors, <<EcPtr(0, 1, idx, block)>>) :
        idx \in {0, 1, 2}, block \in {0, 1} }

\* the entry bch2_mark_stripe_ptr passes to update_replicas for user data
StripeUserEntry ==
    ReplicasEntry(BCH_DATA_user, StripeNrBlocks - 2, {0, 1})

StripeState ==
    [buckets |-> buckets, dev_usage |-> dev_usage, c_usage |-> c_usage,
     stripes |-> stripes, heap_updates |-> 0, heap_dels |-> 0]

\* nothing marked yet, no stripe
StripeEmptyState ==
    [buckets |-> EmptyMarkState.buckets,
     dev_usage |-> EmptyMarkState.dev_usage,
     c_usage |-> [MarkUsageZero EXCEPT
                    !.replicas = [e \in ReplicasEntries \cup {StripeUserEntry}
                                    |-> 0]],
     stripes |-> [i \in {0, 1} |-> StripeZero],
     heap_updates |-> 0, heap_dels |-> 0]

\* the start: nothing marked, or one extent of StripeSectors sectors with a
\* plain dirty pointer marked in the bucket of device 0
StripeInitStates ==
    {StripeEmptyState,
     bch2_mark_key(StripeEmptyState,
                   Key(KEY_TYPE_extent, 0, StripeSectors,
                       <<ExtentPtr(0, 1, FALSE, 1, 1)>>),
                   0, StripeSectors, 1, {}).S}

StripeInit ==
    /\ \E S0 \in StripeInitStates :
          /\ buckets = S0.buckets
          /\ dev_usage = S0.dev_usage
          /\ c_usage = S0.c_usage
    /\ mk_sum = [dirty |-> 0, cached |-> 0]
    /\ btree_keys = {}
    /\ mk_nops = 0
    /\ mk_last = NoCall
    /\ mk_prev = NoCall
    /\ stripes = [i \in {0, 1} |-> StripeZero]
    /\ btrees = [b \in {BTREE_ID_EC} |-> [i \in {0, 1, 2} |-> DeletedAt(i)]]
    /\ trans_updates = <<>>
    /\ fs_usage_deltas = NoDeltaList

\* the update of a slot that marks the insert only
bch2_mark_update_slot_insert_only(S, old, new, journal_seq) ==
    TheOne({ [S |-> r.S, rets |-> <<r.ret>>] :
               r \in {bch2_mark_key_locked(S, old, new, 0, 0, journal_seq,
                                           {BTREE_TRIGGER_INSERT})} })

\* bch2_mark_update on a btree that is not an extents btree: one mark with
\* INSERT|OVERWRITE when old and new have the same type, else the INSERT
\* mark followed by the OVERWRITE mark; the return values are dropped
bch2_mark_update_slot(S, old, new, journal_seq) ==
    IF old.type = new.type
    THEN TheOne({ [S |-> r.S, rets |-> <<r.ret>>] :
                    r \in {bch2_mark_key_locked(
                               S, old, new, 0, 0, journal_seq,
                               {BTREE_TRIGGER_INSERT,
                                BTREE_TRIGGER_OVERWRITE})} })
    ELSE TheOne({ TheOne({ [S |-> r2.S, rets |-> <<r1.ret, r2.ret>>] :
                             r2 \in {bch2_mark_key_locked(
                                         r1.S, old, new, 0, 0, journal_seq,
                                         {BTREE_TRIGGER_OVERWRITE})} }) :
                    r1 \in {bch2_mark_key_locked(
                                S, old, new, 0, 0, journal_seq,
                                {BTREE_TRIGGER_INSERT})} })

\* BUG_ON fired in the last call: nothing runs after it
Crashed == mk_last.op = "trans_mark" /\ mk_last.bug

\* an update of the stripes btree at index 0: its mark, then the insert.
\* It waits while the transaction has an update of that key pending: the
\* transaction's iterator holds the key's node with BTREE_ITER_INTENT.
MarkStripeKey(new) ==
    /\ mk_nops < MaxStripeOps
    /\ ~Crashed
    /\ <<BTREE_ID_EC, new.pos>> \notin DOMAIN trans_updates
    /\ LET old == btrees[BTREE_ID_EC][new.pos]
       IN  \E r \in {bch2_mark_update_slot(StripeState, old, new, 1)} :
              /\ stripes' = r.S.stripes
              /\ btrees' = [btrees EXCEPT ![BTREE_ID_EC][new.pos] = new]
              /\ mk_last' = [op |-> "stripe", old |-> old, new |-> new,
                             rets |-> r.rets,
                             heap_updates |-> r.S.heap_updates,
                             heap_dels |-> r.S.heap_dels,
                             pre |-> stripes]
    /\ mk_nops' = mk_nops + 1
    /\ mk_prev' = mk_last
    /\ UNCHANGED <<buckets, dev_usage, c_usage, btree_keys, mk_sum,
                   trans_updates, fs_usage_deltas, ecOthers>>

\* the mark of an extent with an erasure coded pointer: inserted, or
\* overwritten whole
MarkEcExtent(k, overwrite) ==
    /\ mk_nops < MaxStripeOps
    /\ ~Crashed
    /\ \E r \in {IF overwrite
                  THEN bch2_mark_key_locked(StripeState, k, DeletedKey, 0,
                                            -k.size, 1,
                                            {BTREE_TRIGGER_OVERWRITE})
                  ELSE bch2_mark_key_locked(StripeState, DeletedKey, k, 0,
                                            k.size, 1,
                                            {BTREE_TRIGGER_INSERT})} :
          /\ SetMarkState(r.S)
          /\ stripes' = r.S.stripes
          /\ mk_last' = [op |-> "ec_extent", key |-> k,
                         overwrite |-> overwrite,
                         sectors |-> r.deltas[1], ret |-> r.rets[1],
                         mark_ret |-> r.ret,
                         heap_updates |-> r.S.heap_updates,
                         pre |-> stripes, pre_bucket |-> buckets[0],
                         pre_usage |-> c_usage]
    /\ mk_nops' = mk_nops + 1
    /\ mk_prev' = mk_last
    /\ UNCHANGED <<btree_keys, mk_sum, btrees,
                   trans_updates, fs_usage_deltas, ecOthers>>

\* what the transactional marks read of the live state
\* no live bucket belongs to a stripe
NoStripeRefs == [d \in Devs |-> [stripe |-> 0, stripe_redundancy |-> 0]]

LiveView ==
    [buckets |-> buckets, btrees |-> btrees, g_stripe |-> NoStripeRefs]

\* the transaction
Trans == [updates |-> trans_updates, deltas |-> fs_usage_deltas]

\* one call of bch2_trans_mark_key in the transaction
TransMarkKey(old, new, offset, sectors, flags, krealloc_ok) ==
    /\ ~Crashed
    /\ \E r \in {bch2_trans_mark_key(Trans, LiveView, old, new, offset,
                                     sectors, flags, krealloc_ok)} :
          /\ trans_updates' = r.T.updates
          /\ fs_usage_deltas' = r.T.deltas
          /\ mk_last' = [op |-> "trans_mark", old |-> old, new |-> new,
                         offset |-> offset, sectors |-> sectors,
                         flags |-> flags, krealloc_ok |-> krealloc_ok,
                         ret |-> r.ret, bug |-> r.bug,
                         pre_updates |-> trans_updates,
                         pre_deltas |-> fs_usage_deltas,
                         pre_live |-> [buckets |-> buckets,
                                       dev_usage |-> dev_usage,
                                       c_usage |-> c_usage,
                                       stripes |-> stripes]]
    /\ mk_nops' = mk_nops + 1
    /\ mk_prev' = mk_last
    /\ UNCHANGED <<buckets, dev_usage, c_usage, btree_keys, mk_sum,
                   stripes, btrees, ecOthers>>

\* the transactional mark of an extent: inserted, or overwritten whole
TransMarkExtent(k, overwrite, krealloc_ok) ==
    IF overwrite
    THEN TransMarkKey(k, DeletedKey, 0, -k.size, {BTREE_TRIGGER_OVERWRITE},
                      krealloc_ok)
    ELSE TransMarkKey(DeletedKey, k, 0, k.size, {BTREE_TRIGGER_INSERT},
                      krealloc_ok)

\* the key a recorded call m marked, and its first pointer
MarkedKey(m) ==
    IF m.op = "ec_extent" THEN m.key
    ELSE IF BTREE_TRIGGER_INSERT \in m.flags THEN m.new ELSE m.old

MarkedPtr(m) == MarkedKey(m).ptrs[1]

WasEcMark(m) == m.op = "ec_extent"

WasTransEcMark(m) ==
    /\ m.op = "trans_mark"
    /\ MarkedKey(m).type = KEY_TYPE_extent
    /\ MarkedPtr(m).has_ec

\* c->stripes holds no alive stripe at idx
NoAliveStripe(tbl, idx) == idx \notin DOMAIN tbl \/ ~tbl[idx].alive

\* the updates of the stripes btree pending in a transaction
PendingStripes(updates) ==
    [x \in { y \in DOMAIN updates : y[1] = BTREE_ID_EC } |-> updates[x]]

\* C17: the mark of an extent whose erasure coded pointer names a stripe
\* that c->stripes does not hold or holds as not alive returns an error,
\* on the immediate path (bch2_mark_stripe_ptr) and on the transactional
\* path (bch2_trans_mark_stripe_ptr); the stripes' block_sectors and
\* blocks_nonempty, and the stripe updates pending in the transaction, are
\* as before the call.
C17_MissingStripeIsError ==
    /\ (WasEcMark(mk_last)
        /\ NoAliveStripe(mk_last.pre, MarkedPtr(mk_last).ec.idx))
       => /\ mk_last.mark_ret < 0
          /\ stripes = mk_last.pre
    /\ (WasTransEcMark(mk_last)
        /\ NoAliveStripe(stripes, MarkedPtr(mk_last).ec.idx))
       => /\ mk_last.ret < 0
          /\ PendingStripes(trans_updates)
               = PendingStripes(mk_last.pre_updates)

\* the stripe the last call was about, before and after it
LastIdx ==
    IF mk_last.op = "stripe" THEN mk_last.new.pos
    ELSE MarkedPtr(mk_last).ec.idx

\* the number of blocks i < nr_blocks of stripe m with sectors
NonemptyBlocks(m) ==
    Cardinality({ i \in 0..(m.nr_blocks - 1) : m.block_sectors[i] # 0 })

BlocksNonemptyIsCount ==
    \A idx \in DOMAIN stripes :
       stripes[idx].alive
          => stripes[idx].blocks_nonempty = NonemptyBlocks(stripes[idx])

\* bch2_mark_stripe_ptr ran on an alive stripe in the last call
StripePtrRan ==
    /\ WasEcMark(mk_last)
    /\ mk_last.ret = 0
    /\ ~NoAliveStripe(mk_last.pre, LastIdx)

\* bch2_mark_stripe ran in the last call and left the stripe alive
StripeKeyMarked ==
    /\ mk_last.op = "stripe"
    /\ mk_last.new.type = KEY_TYPE_stripe
    /\ LastIdx \in DOMAIN stripes
    /\ \A i \in 1..Len(mk_last.rets) : mk_last.rets[i] = 0

ChangedBlocksNonempty ==
    stripes[LastIdx].blocks_nonempty # mk_last.pre[LastIdx].blocks_nonempty

\* C18 as stated: blocks_nonempty of an alive stripe is the number of its
\* blocks with sectors, and bch2_mark_stripe_ptr and the live-view
\* bch2_mark_stripe call bch2_stripes_heap_update exactly when the call
\* changed blocks_nonempty.
C18_HeapUpdateExactlyOnChange ==
    /\ BlocksNonemptyIsCount
    /\ StripePtrRan => (mk_last.heap_updates = 1 <=> ChangedBlocksNonempty)
    /\ (StripeKeyMarked /\ mk_last.pre[LastIdx].alive)
       => (mk_last.heap_updates = 1 <=> ChangedBlocksNonempty)

\* C18, amended: blocks_nonempty of an alive stripe is the number of its
\* blocks with sectors; bch2_mark_stripe_ptr calls bch2_stripes_heap_update
\* exactly when it changed blocks_nonempty, and the live-view
\* bch2_mark_stripe of a stripe key calls it every time.
C18_HeapUpdateOnChangeOrKey ==
    /\ BlocksNonemptyIsCount
    /\ StripePtrRan => (mk_last.heap_updates = 1 <=> ChangedBlocksNonempty)
    /\ StripeKeyMarked => mk_last.heap_updates = 1

\* a stripe with sectors in every block, then the overwrite of an extent
\* takes the sectors of one block: one block fewer counts, the heap is
\* updated
C18_Witness ==
    /\ StripePtrRan
    /\ mk_last.overwrite
    /\ mk_last.pre[0].blocks_nonempty = StripeNrBlocks
    /\ \A i \in 0..(StripeNrBlocks - 1) :
          mk_last.pre[0].block_sectors[i] = StripeSectors
    /\ stripes[0].block_sectors[MarkedPtr(mk_last).ec.block] = 0
    /\ stripes[0].blocks_nonempty = StripeNrBlocks - 1
    /\ mk_last.heap_updates = 1

\* both paths reached their stripe check with a stripe that is not alive,
\* the bucket mark before it having accepted the pointer: the immediate
\* mark in the call before last, the transactional mark in the last call
C17_Witness ==
    /\ WasEcMark(mk_prev)
    /\ mk_prev.ret = 0
    /\ MarkedPtr(mk_prev).ec.idx = 1
    /\ mk_prev.mark_ret = EIO
    /\ WasTransEcMark(mk_last)
    /\ MarkedPtr(mk_last).ec.idx = 2
    /\ mk_last.ret = EIO
    /\ <<BTREE_ID_ALLOC, 0>> \in DOMAIN trans_updates
    /\ trans_updates # mk_last.pre_updates

StripeNext ==
    \/ \E new \in StripeKeys \cup {DeletedAt(0)} : MarkStripeKey(new)
    \/ \E k \in EcExtents, o \in BOOLEAN : MarkEcExtent(k, o)
    \/ /\ mk_nops < MaxStripeOps
       /\ \E k \in EcExtents, o \in BOOLEAN : TransMarkExtent(k, o, TRUE)

(***************************************************************************)
(* SpecTrans: one transaction marking keys of every type                    *)
(* bch2_trans_mark_key knows.  The live state holds StripeSectors sectors   *)
(* of user data in the bucket of device 0, a stripe at index 0 with         *)
(* sectors in every block, and one indirect extent [0, 8) with reference    *)
(* count 1 followed by a hole.  The transaction starts with no delta list,  *)
(* or with one whose 128 bytes hold ten entries already.  krealloc may      *)
(* fail in any call.                                                        *)
(***************************************************************************)
MaxTransOps == 2

TransSectors == 8

FullStripeKey(pos) ==
    StripeKey(pos, StripeSectors, 2, StripeDevs,
              [i \in 1..StripeNrBlocks |-> StripeSectors])

TransLive ==
    LET S0 == CHOOSE S \in StripeInitStates : S # StripeEmptyState
    IN  bch2_mark_update_slot(S0, DeletedAt(0), FullStripeKey(0), 1).S

\* ten entries of 3 + 1 + 8 bytes
TenEntries ==
    [i \in 1..10 |-> [r |-> bch2_replicas_entry_cached(0),
                      delta |-> TransSectors]]

FilledDeltaList ==
    [NoDeltaList EXCEPT !.size = 128, !.used = 120, !.d = TenEntries]

TransInit ==
    /\ buckets = TransLive.buckets
    /\ dev_usage = TransLive.dev_usage
    /\ c_usage = TransLive.c_usage
    /\ stripes = TransLive.stripes
    /\ btrees = [b \in {BTREE_ID_EC, BTREE_ID_REFLINK} |->
                   IF b = BTREE_ID_EC
                   THEN [i \in {0, 1, 2} |->
                           IF i = 0 THEN FullStripeKey(0) ELSE DeletedAt(i)]
                   ELSE [st \in {0, TransSectors} |->
                           IF st = 0 THEN ReflinkV(0, TransSectors, 1)
                           ELSE Hole(TransSectors, TransSectors)]]
    /\ trans_updates = <<>>
    /\ fs_usage_deltas \in {NoDeltaList, FilledDeltaList}
    /\ mk_sum = [dirty |-> 0, cached |-> 0]
    /\ btree_keys = {}
    /\ mk_nops = 0
    /\ mk_last = NoCall
    /\ mk_prev = NoCall

Call(old, new, offset, sectors, flags) ==
    [old |-> old, new |-> new, offset |-> offset, sectors |-> sectors,
     flags |-> flags]

InsertOf(k) == Call(DeletedKey, k, 0, k.size, {BTREE_TRIGGER_INSERT})

OverwriteOf(k) == Call(k, DeletedKey, 0, -k.size, {BTREE_TRIGGER_OVERWRITE})

\* extents with one pointer into the bucket of device 0: dirty, cached,
\* cached and stale, erasure coded into the stripe, erasure coded into a
\* stripe that does not exist
TransExtents ==
    { Key(KEY_TYPE_extent, 0, TransSectors, <<p>>) :
        p \in {ExtentPtr(0, 1, FALSE, 1, 1), ExtentPtr(0, 1, TRUE, 1, 1),
               ExtentPtr(0, 0, TRUE, 1, 1), EcPtr(0, 1, 0, 0),
               EcPtr(0, 1, 1, 0)} }

\* the calls bch2_trans_mark_update makes for updates of the stripes and
\* inodes btrees, which are not extents btrees
TransSlotCalls ==
    { Call(DeletedAt(pos), FullStripeKey(pos), 0, 0, {BTREE_TRIGGER_INSERT}) :
        pos \in {1, 2} }
    \cup
    { Call(FullStripeKey(0), DeletedAt(0), 0, 0, {BTREE_TRIGGER_OVERWRITE}),
      Call(FullStripeKey(0), FullStripeKey(0), 0, 0,
           {BTREE_TRIGGER_INSERT, BTREE_TRIGGER_OVERWRITE}),
      Call(DeletedAt(0), InodeKey(0), 0, 0, {BTREE_TRIGGER_INSERT}),
      Call(InodeKey(0), DeletedAt(0), 0, 0, {BTREE_TRIGGER_OVERWRITE}),
      Call(InodeKey(0), InodeKey(0), 0, 0,
           {BTREE_TRIGGER_INSERT, BTREE_TRIGGER_OVERWRITE}) }

TransOtherKeys ==
    { ReservationKey(0, TransSectors, 2), ReflinkP(0, TransSectors, 0),
      ReflinkP(0, TransSectors, TransSectors) }

TransCalls ==
    { InsertOf(k) : k \in TransExtents \cup TransOtherKeys }
    \cup { OverwriteOf(k) : k \in TransExtents \cup TransOtherKeys }
    \cup TransSlotCalls

\* the calls tried with krealloc failing
TransCallsNoMem ==
    { InsertOf(k) : k \in TransExtents }
    \cup { Call(DeletedAt(0), InodeKey(0), 0, 0, {BTREE_TRIGGER_INSERT}),
           InsertOf(ReservationKey(0, TransSectors, 2)),
           InsertOf(ReflinkP(0, TransSectors, 0)) }

TransNext ==
    \/ /\ mk_nops < MaxTransOps
       /\ \E c \in TransCalls :
             TransMarkKey(c.old, c.new, c.offset, c.sectors, c.flags, TRUE)
    \/ /\ mk_nops < MaxTransOps
       /\ \E c \in TransCallsNoMem :
             TransMarkKey(c.old, c.new, c.offset, c.sectors, c.flags, FALSE)

\* bch2_trans_mark_key returned in the last call
TransReturned == mk_last.op = "trans_mark" /\ ~mk_last.bug

LiveUnchanged ==
    /\ buckets = mk_last.pre_live.buckets
    /\ stripes = mk_last.pre_live.stripes
    /\ dev_usage = mk_last.pre_live.dev_usage
    /\ c_usage = mk_last.pre_live.c_usage

\* the positions whose pending update the last call queued or replaced
ChangedUpdates ==
    { x \in DOMAIN trans_updates :
        IF x \in DOMAIN mk_last.pre_updates
        THEN trans_updates[x] # mk_last.pre_updates[x] ELSE TRUE }

UpdatesKept == DOMAIN mk_last.pre_updates \subseteq DOMAIN trans_updates

\* the entries the list had are still its first entries
DeltasAppended ==
    /\ Len(mk_last.pre_deltas.d) <= Len(fs_usage_deltas.d)
    /\ \A i \in 1..Len(mk_last.pre_deltas.d) :
          fs_usage_deltas.d[i] = mk_last.pre_deltas.d[i]

\* C19 as stated: a call of bch2_trans_mark_key leaves the live buckets,
\* stripes and usage counters as they were; it only queues updates of
\* allocation records and stripe records in the transaction and appends
\* entries to the transaction's replicas delta list.
C19_OnlyAllocStripeUpdatesAndEntries ==
    TransReturned
       => /\ LiveUnchanged
          /\ UpdatesKept
          /\ \A x \in ChangedUpdates : x[1] \in {BTREE_ID_ALLOC, BTREE_ID_EC}
          /\ DeltasAppended
          /\ fs_usage_deltas.nr_inodes = mk_last.pre_deltas.nr_inodes
          /\ fs_usage_deltas.persistent_reserved
               = mk_last.pre_deltas.persistent_reserved

\* C19, amended: a call of bch2_trans_mark_key leaves the live buckets,
\* stripes and usage counters as they were; it only queues updates of
\* allocation records, stripe records and (for a reflink pointer) indirect
\* extents in the transaction, appends entries to the transaction's
\* replicas delta list, and changes that list's nr_inodes (for an inode
\* key) and persistent_reserved (for a reservation).  The mark of an extent
\* whose pointer has the bucket's generation, returning 0, has queued the
\* update of the bucket's allocation record.
C19_TransMarkTouchesTransactionOnly ==
    TransReturned
       => /\ LiveUnchanged
          /\ UpdatesKept
          /\ \A x \in ChangedUpdates :
                \/ x[1] \in {BTREE_ID_ALLOC, BTREE_ID_EC}
                \/ /\ x[1] = BTREE_ID_REFLINK
                   /\ MarkedKey(mk_last).type = KEY_TYPE_reflink_p
          /\ DeltasAppended
          /\ fs_usage_deltas.nr_inodes # mk_last.pre_deltas.nr_inodes
                => MarkedKey(mk_last).type = KEY_TYPE_inode
          /\ fs_usage_deltas.persistent_reserved
               # mk_last.pre_deltas.persistent_reserved
                => MarkedKey(mk_last).type = KEY_TYPE_reservation
          /\ (/\ MarkedKey(mk_last).type = KEY_TYPE_extent
              /\ MarkedPtr(mk_last).gen = buckets[MarkedPtr(mk_last).dev].gen
              /\ mk_last.ret = 0)
             => <<BTREE_ID_ALLOC, MarkedPtr(mk_last).dev>>
                  \in DOMAIN trans_updates

\* after the mark of a reflink pointer queued the indirect extent with one
\* more reference, the mark of an extent with a dirty pointer queued the
\* bucket's allocation record with the extent's sectors added and appended
\* the extent's entry; the live bucket has its sectors as before
C19_Witness ==
    /\ TransReturned
    /\ mk_last.ret = 0
    /\ mk_last.new = Key(KEY_TYPE_extent, 0, TransSectors,
                         <<ExtentPtr(0, 1, FALSE, 1, 1)>>)
    /\ <<BTREE_ID_ALLOC, 0>> \in ChangedUpdates
    /\ trans_updates[<<BTREE_ID_ALLOC, 0>>].dirty_sectors
         = buckets[0].dirty_sectors + TransSectors
    /\ buckets[0].dirty_sectors = StripeSectors
    /\ Len(fs_usage_deltas.d) = Len(mk_last.pre_deltas.d) + 1
    /\ fs_usage_deltas.d[Len(fs_usage_deltas.d)]
         = [r |-> ReplicasEntry(BCH_DATA_user, 1, {0}),
            delta |-> TransSectors]
    /\ mk_prev.op = "trans_mark"
    /\ mk_prev.new.type = KEY_TYPE_reflink_p
    /\ <<BTREE_ID_REFLINK, 0>> \in DOMAIN trans_updates
    /\ trans_updates[<<BTREE_ID_REFLINK, 0>>].refcount = 2

\* the last call had to grow the delta list: with krealloc succeeding the
\* same call on the same transaction leaves the list with another size
ListHadToGrow ==
    bch2_trans_mark_key([updates |-> mk_last.pre_updates,
                         deltas |-> mk_last.pre_deltas],
                        LiveView, mk_last.old, mk_last.new, mk_last.offset,
                        mk_last.sectors, mk_last.flags, TRUE).T.deltas.size
      # mk_last.pre_deltas.size

\* C20: when krealloc fails in a call of bch2_trans_mark_key that has to
\* grow the transaction's replicas delta list, the call returns an error
\* and no BUG_ON fires.
C20_GrowthFailureIsTransactionError ==
    (mk_last.op = "trans_mark" /\ ~mk_last.krealloc_ok /\ ListHadToGrow)
       => (~mk_last.bug /\ mk_last.ret < 0)

(***************************************************************************)
(* SpecDelta: bch2_replicas_delta_list_apply.  c_usage is the target        *)
(* struct bch_fs_usage, here with nr_inodes, reserved and                   *)
(* persistent_reserved[]; the entries present in c->replicas are the domain *)
(* of its replicas[] array.  A list is [d, nr_inodes, persistent_reserved], *)
(* d the sequence of [r, delta] records.  The call with fs_usage == NULL    *)
(* (which only resolves the entries) is not carried.                        *)
(***************************************************************************)
MaxDeltaOps == 2
MaxDeltaLen == 2

\* the entries c->replicas holds in SpecDelta
DeltaLedger ==
    { ReplicasEntry(BCH_DATA_user, 1, {0}),
      ReplicasEntry(BCH_DATA_cached, 1, {0}),
      ReplicasEntry(BCH_DATA_btree, 1, {0, 1}) }

DeltaUsageZero ==
    [btree |-> 0, data |-> 0, cached |-> 0, reserved |-> 0, nr_inodes |-> 0,
     persistent_reserved |-> [i \in 0..(BCH_REPLICAS_MAX - 1) |-> 0],
     replicas |-> [e \in DeltaLedger |-> 0]]

\* struct replicas_delta values: three on entries of the ledger, one on an
\* entry the ledger lacks
ReplicasDeltas ==
    { [r |-> ReplicasEntry(BCH_DATA_user, 1, {0}), delta |-> 8],
      [r |-> ReplicasEntry(BCH_DATA_cached, 1, {0}), delta |-> -4],
      [r |-> ReplicasEntry(BCH_DATA_btree, 1, {0, 1}), delta |-> 512],
      [r |-> ReplicasEntry(BCH_DATA_user, 1, {1}), delta |-> 8] }

RECURSIVE SeqsUpTo(_, _)
SeqsUpTo(S, n) ==
    IF n = 0 THEN {<<>>}
    ELSE LET shorter == SeqsUpTo(S, n - 1)
         IN  shorter \cup { Append(q, x) : q \in shorter, x \in S }

ReplicasDeltaLists ==
    { [d |-> q, nr_inodes |-> x[1],
       persistent_reserved |->
           [i \in 0..(BCH_REPLICAS_MAX - 1) |-> IF i = 1 THEN x[2] ELSE 0]] :
        q \in SeqsUpTo(ReplicasDeltas, MaxDeltaLen),
        x \in { <<0, 0>>, <<1, 16>> } }

\* update_replicas: its return value
update_replicas_ret(S, r) ==
    IF r \notin DOMAIN S.c_usage.replicas THEN -1 ELSE 0

\* the loop of bch2_replicas_delta_list_apply: [top, S], top the index of the
\* first entry that did not resolve, Len(d) + 1 when every entry resolved
RECURSIVE replicas_delta_forward(_, _, _)
replicas_delta_forward(S, d, i) ==
    IF i > Len(d) THEN [top |-> i, S |-> S]
    ELSE IF update_replicas_ret(S, d[i].r) # 0 THEN [top |-> i, S |-> S]
    ELSE replicas_delta_forward(update_replicas(S, d[i].r, d[i].delta),
                                d, i + 1)

\* label unwind: update_replicas(-delta) for the entries before top
replicas_delta_unwind_skipped(S, d, i, top) == S

RECURSIVE replicas_delta_unwind(_, _, _, _)
replicas_delta_unwind(S, d, i, top) ==
    IF i >= top THEN S
    ELSE replicas_delta_unwind(update_replicas(S, d[i].r, -d[i].delta),
                               d, i + 1, top)

RECURSIVE SumPersistentReserved(_, _)
SumPersistentReserved(pr, i) ==
    IF i >= BCH_REPLICAS_MAX THEN 0
    ELSE pr[i] + SumPersistentReserved(pr, i + 1)

\* bch2_replicas_delta_list_apply(c, fs_usage, r): [ret, fs_usage]
bch2_replicas_delta_list_apply(fs_usage, r) ==
    LET Done(f) ==
            IF f.top <= Len(r.d)
            THEN [ret |-> -1,
                  fs_usage |-> replicas_delta_unwind(f.S, r.d, 1, f.top).c_usage]
            ELSE [ret |-> 0,
                  fs_usage |->
                      [f.S.c_usage EXCEPT
                         !.nr_inodes = @ + r.nr_inodes,
                         !.reserved =
                             @ + SumPersistentReserved(r.persistent_reserved, 0),
                         !.persistent_reserved =
                             [i \in DOMAIN @ |-> @[i] + r.persistent_reserved[i]]]]
    IN  TheOne({ Done(f) :
                   f \in {replicas_delta_forward([c_usage |-> fs_usage],
                                                 r.d, 1)} })

DeltaInit ==
    /\ buckets = <<>>
    /\ dev_usage = <<>>
    /\ c_usage = DeltaUsageZero
    /\ btree_keys = {}
    /\ mk_sum = [dirty |-> 0, cached |-> 0]
    /\ mk_nops = 0
    /\ mk_last = NoCall
    /\ mk_prev = NoCall

ReplicasDeltaListApply(r) ==
    /\ mk_nops < MaxDeltaOps
    /\ \E res \in {bch2_replicas_delta_list_apply(c_usage, r)} :
          /\ c_usage' = res.fs_usage
          /\ mk_last' = [op |-> "delta_list_apply", list |-> r,
                         ret |-> res.ret, pre |-> c_usage]
    /\ mk_nops' = mk_nops + 1
    /\ UNCHANGED <<buckets, dev_usage, btree_keys, mk_sum, mk_prev, markOthers>>

DeltaNext == \E r \in ReplicasDeltaLists : ReplicasDeltaListApply(r)

\* sum of the deltas of the entries of d that lie in the set sel
RECURSIVE DeltaSum(_, _)
DeltaSum(d, sel) ==
    IF d = <<>> THEN 0
    ELSE (IF Head(d).r \in sel THEN Head(d).delta ELSE 0)
         + DeltaSum(Tail(d), sel)

\* C12: bch2_replicas_delta_list_apply is all-or-nothing.  If an entry of the
\* list is not in the replicas ledger it returns -1 and every counter of the
\* target usage (replicas[], btree, data, cached, nr_inodes, reserved,
\* persistent_reserved[]) holds its value from before the call; if every
\* entry resolves it returns 0, each replicas counter and base counter has
\* grown by the sum of the deltas of its entries, nr_inodes by the list's
\* nr_inodes, persistent_reserved[i] by the list's persistent_reserved[i] and
\* reserved by their sum.
C12_DeltaListAllOrNothing ==
    mk_last.op = "delta_list_apply" =>
        LET pre == mk_last.pre
            l == mk_last.list
            ledger == DOMAIN pre.replicas
            resolves == \A i \in 1..Len(l.d) : l.d[i].r \in ledger
            OfType(ts) == { e \in ledger : e.data_type \in ts }
        IN  /\ DOMAIN c_usage.replicas = ledger
            /\ ~resolves => /\ mk_last.ret = -1
                            /\ c_usage = pre
            /\ resolves =>
                  /\ mk_last.ret = 0
                  /\ \A e \in ledger :
                        c_usage.replicas[e] =
                            pre.replicas[e] + DeltaSum(l.d, {e})
                  /\ c_usage.btree =
                        pre.btree + DeltaSum(l.d, OfType({BCH_DATA_btree}))
                  /\ c_usage.data =
                        pre.data + DeltaSum(l.d, OfType({BCH_DATA_user,
                                                         BCH_DATA_parity}))
                  /\ c_usage.cached =
                        pre.cached + DeltaSum(l.d, OfType({BCH_DATA_cached}))
                  /\ c_usage.nr_inodes = pre.nr_inodes + l.nr_inodes
                  /\ \A i \in 0..(BCH_REPLICAS_MAX - 1) :
                        c_usage.persistent_reserved[i] =
                            pre.persistent_reserved[i]
                                + l.persistent_reserved[i]
                  /\ c_usage.reserved =
                        pre.reserved + l.persistent_reserved[0]
                            + l.persistent_reserved[1]
                            + l.persistent_reserved[2]
                            + l.persistent_reserved[3]

\* C12 witness: on a usage that earlier lists have filled, a list whose
\* second entry is missing from the ledger failed after its first entry had
\* been applied, and the usage is what it was.
C12_Witness ==
    /\ mk_last.op = "delta_list_apply"
    /\ mk_last.ret = -1
    /\ Len(mk_last.list.d) = 2
    /\ mk_last.list.d[1].r \in DOMAIN c_usage.replicas
    /\ mk_last.list.d[2].r \notin DOMAIN c_usage.replicas
    /\ mk_last.list.nr_inodes = 1
    /\ mk_last.pre.data # 0
    /\ c_usage = mk_last.pre

(***************************************************************************)
(* SpecCasUsage: the concurrent markers of SpecCas, each followed by its   *)
(* bch2_dev_usage_update(old, new) once its compare-and-exchange has       *)
(* stored.  The device's table is the one bucket g_mark; dev_usage[0] is   *)
(* the device's usage, the sum of its per-core shards.                     *)
(***************************************************************************)
CasUsageState == [buckets |-> <<>>, dev_usage |-> dev_usage, c_usage |-> c_usage]

\* what the one-bucket table says: dirty sectors of type t, plus the cached
\* sectors for the cached type; buckets whose type is t
TableSectors(m, t) ==
    (IF m.data_type = t THEN m.dirty_sectors ELSE 0)
      + (IF t = BCH_DATA_cached THEN m.cached_sectors ELSE 0)

TableBuckets(m, t) ==
    LET type == IF m.cached_sectors # 0 /\ m.dirty_sectors = 0
                THEN BCH_DATA_cached ELSE m.data_type
    IN  IF type = t THEN 1 ELSE 0

\* the device's usage agrees with the starting bucket
CasUsageTables ==
    /\ buckets = <<>>
    /\ dev_usage =
         [d \in {0} |->
            [DevUsageZero EXCEPT
               !.sectors = [t \in DataTypes |-> TableSectors(g_mark, t)],
               !.buckets = [t \in DataTypes |->
                              IF t = BCH_DATA_none THEN 0
                              ELSE TableBuckets(g_mark, t)],
               !.fragmented = AddAt(@, g_mark.data_type,
                                    bucket_sectors_fragmented(g_mark)),
               !.buckets_unavailable = is_unavailable_bucket(g_mark)]]
    /\ c_usage = MarkUsageZero
    /\ btree_keys = {}
    /\ mk_sum = [dirty |-> 0, cached |-> 0]
    /\ mk_nops = 0
    /\ mk_last = NoCall
    /\ mk_prev = NoCall

\* the markers are called as gc and recovery call them, with journal_seq 0
CasUsageInit ==
    /\ \A p \in Markers : m_arg[p].journal_seq = 0
    /\ CasUsageTables

\* bch2_mark_pointer after the loop: bch2_dev_usage_update(c, ca, fs_usage,
\* old, new, journal_seq, gc) with the locals of the last iteration
MarkPointerUsage(p) ==
    /\ m_pc[p] = "usage"
    /\ \E S \in {bch2_dev_usage_update(CasUsageState, 0, m_old[p], m_new[p])} :
          /\ dev_usage' = S.dev_usage
          /\ c_usage' = S.c_usage
    /\ m_pc' = [m_pc EXCEPT ![p] = "done"]
    /\ UNCHANGED <<g_mark, g_init, m_arg, m_v, m_old, m_new, m_ret>>
    /\ UNCHANGED <<buckets, btree_keys, mk_sum, mk_nops, mk_last, mk_prev>>
    /\ UNCHANGED <<resVars, foldVars, ecVars, rszVars, gcVars, callVars>>

CasUsageNext ==
    \E p \in Markers :
        \/ MarkPointerRead(p)
        \/ MarkPointerCompute(p)
        \/ MarkPointerCmpxchg(p, "usage")
        \/ MarkPointerUsage(p)

\* no mark in flight: every marker has not started or has returned
CasQuiescent == \A p \in Markers : m_pc[p] \in {"read", "done"}

\* C25 as stated: once every marker has stored its mark and returned, for
\* every data type the device's sector count and bucket count are those of
\* the bucket table
C25_UsageAgreesForEveryType ==
    (CasAllDone /\ \A p \in Markers : m_ret[p] = 0) =>
        \A t \in DataTypes :
            /\ dev_usage[0].sectors[t] = TableSectors(g_mark, t)
            /\ dev_usage[0].buckets[t] = TableBuckets(g_mark, t)

\* C25: at every quiescent state the device's sector count of every data
\* type, and its bucket count of every data type other than none, are those
\* of the bucket table; buckets of type none are not counted
C25_UsageAgreesWithTable ==
    CasQuiescent =>
        \A t \in DataTypes :
            /\ dev_usage[0].sectors[t] = TableSectors(g_mark, t)
            /\ t # BCH_DATA_none
                 => dev_usage[0].buckets[t] = TableBuckets(g_mark, t)
            /\ dev_usage[0].buckets[BCH_DATA_none] = 0

\* two markers of the dirty count both stored, one after a retry, the bucket
\* went from empty to user data and the usage counts its 30 sectors
C25_Witness ==
    /\ CasAllDone
    /\ g_init.dirty_sectors = 0 /\ g_init.cached_sectors = 0
    /\ \E p, q \in Markers :
          /\ p # q
          /\ m_ret[p] = 0 /\ m_ret[q] = 0
          /\ m_old[q] # g_init
          /\ m_old[q].dirty_sectors = 50
    /\ g_mark.dirty_sectors = 30
    /\ dev_usage[0].sectors[BCH_DATA_user] = 30
    /\ dev_usage[0].buckets[BCH_DATA_user] = 1

(***************************************************************************)
(* SpecMarkFail: the markers of SpecCasUsage with pointers that fail       *)
(* validation (a generation newer than the bucket's, a sector count that   *)
(* leaves the u16 range) or are stale (a cached pointer of an older        *)
(* generation), with and without BTREE_TRIGGER_NOATOMIC, next to markers   *)
(* that pass.  With the flag the loop body ends in g->_mark = new; break.  *)
(***************************************************************************)
FailArgs ==
    { [sectors |-> 50, cached |-> FALSE, journal_seq |-> 1, gen |-> 1,
       noatomic |-> FALSE],
      [sectors |-> -20, cached |-> TRUE, journal_seq |-> 1, gen |-> 1,
       noatomic |-> TRUE],
      [sectors |-> 50, cached |-> TRUE, journal_seq |-> 1, gen |-> 0,
       noatomic |-> FALSE],
      [sectors |-> 50, cached |-> TRUE, journal_seq |-> 1, gen |-> 0,
       noatomic |-> TRUE],
      [sectors |-> 50, cached |-> FALSE, journal_seq |-> 1, gen |-> 2,
       noatomic |-> TRUE] }

MarkFailInit ==
    /\ g_mark \in {BucketMark(1, BCH_DATA_user, 20, 20, 0, 0),
                   BucketMark(1, BCH_DATA_user, 65500, 0, 0, 0)}
    /\ g_init = g_mark
    /\ m_arg \in [Markers -> FailArgs]
    /\ m_pc = [p \in Markers |-> "read"]
    /\ m_v = [p \in Markers |-> ZeroMark]
    /\ m_old = [p \in Markers |-> ZeroMark]
    /\ m_new = [p \in Markers |-> ZeroMark]
    /\ m_ret = [p \in Markers |-> 0]
    /\ CasUsageTables

\* if (flags & BTREE_TRIGGER_NOATOMIC) { g->_mark = new; break; }
MarkPointerStore(p) ==
    /\ m_pc[p] = "cas"
    /\ m_arg[p].noatomic
    /\ g_mark' = m_new[p]
    /\ m_pc' = [m_pc EXCEPT ![p] = "usage"]
    /\ UNCHANGED <<g_init, m_arg, m_v, m_old, m_new, m_ret>>
    /\ UNCHANGED casOthers

\* without the flag the loop ends in the compare-and-exchange
MarkPointerExchange(p) ==
    ~m_arg[p].noatomic /\ MarkPointerCmpxchg(p, "usage")

MarkFailNext ==
    \E p \in Markers :
        \/ MarkPointerRead(p)
        \/ MarkPointerCompute(p)
        \/ MarkPointerExchange(p)
        \/ MarkPointerStore(p)
        \/ MarkPointerUsage(p)

\* the bucket's mark word, the device usage with its wake-up count and the
\* filesystem usage
MarkShared == <<g_mark, dev_usage, c_usage>>

\* C38: a call that fails validation or reports stale returns from the
\* validation step itself, and that step leaves the bucket's mark, the
\* device usage and the wake-up count as they were; every change of these
\* is the store or the usage update of a call that passed validation, and a
\* call that has stored never returns a non-zero code -- with and without
\* BTREE_TRIGGER_NOATOMIC.
C38_FailedMarkStoresNothing ==
    [][/\ \A p \in Markers :
            m_ret'[p] # 0 /\ m_pc'[p] # m_pc[p]
              => /\ m_pc[p] = "compute" /\ m_pc'[p] = "done"
                 /\ MarkShared' = MarkShared
       /\ MarkShared' # MarkShared
            => \E p \in Markers :
                  /\ m_pc[p] \in {"cas", "usage"}
                  /\ m_pc'[p] \in {"usage", "done"}
                  /\ m_pc'[p] # m_pc[p]
                  /\ m_ret'[p] = 0
       /\ \A p \in Markers :
            m_pc[p] \in {"usage", "done"}
              => m_pc'[p] \in {"usage", "done"} /\ m_ret'[p] = m_ret[p]
      ]_vars

\* C38 witness: all calls have returned, one with the flag reported stale,
\* another failed validation after reading the mark a passing call had
\* stored, and the mark and the usage are those the passing call left
C38_Witness ==
    /\ CasAllDone
    /\ \E p \in Markers :
          m_ret[p] = 1 /\ m_arg[p].noatomic
    /\ \E p, q \in Markers :
          /\ m_ret[p] = 0 /\ m_ret[q] # 0
          /\ g_mark = m_new[p]
          /\ g_mark # g_init
          /\ m_old[q] = g_mark
          /\ dev_usage[0].sectors[BCH_DATA_user] = g_mark.dirty_sectors

(***************************************************************************)
(* SpecUsed: reserve_factor, bch2_fs_sectors_used and                      *)
(* __bch2_fs_usage_read_short applied to usage aggregates that run from    *)
(* empty to overcommitted.                                                 *)
(***************************************************************************)
MaxReserved == 1030

\* bch2_fs_sectors_used(c, fs_usage)
bch2_fs_sectors_used(u) ==
    Min(u.hidden + u.btree + u.data + reserve_factor(u.reserved + u.online_reserved),
        Capacity)

UsedAggregates ==
    { [UsageZero EXCEPT !.hidden = h, !.btree = b, !.data = d,
                        !.reserved = r, !.online_reserved = o] :
        h \in {0, 100}, b \in {0, 64}, d \in {0, 2900},
        r \in {0, 1, 1000}, o \in {0, 63} }

UsedInit ==
    /\ c_sectors_available = 0
    /\ pcpu_sectors_available = [cpu \in Cpus |-> 0]
    /\ usage_base \in UsedAggregates
    /\ usage = [i \in UsageIdx |-> [cpu \in Cpus |-> UsageZero]]
    /\ disk_res = [r \in Reservations |-> 0]
    /\ r_nops = 0
    /\ r_last = NoCall
    /\ r_grant = NoCall

\* one application per behaviour
UsedFrame ==
    /\ r_last = NoCall
    /\ UNCHANGED <<c_sectors_available, pcpu_sectors_available, usage_base,
                   usage, disk_res, r_nops, r_grant>>
    /\ UNCHANGED resOthers

UsedCall(rec) == UsedFrame /\ r_last' = rec

ReserveFactor(r) ==
    /\ UsedFrame
    /\ r_last' = [op |-> "reserve_factor", r |-> r, ret |-> reserve_factor(r)]

FsSectorsUsed ==
    UsedCall([op |-> "sectors_used", u |-> bch2_fs_usage_read,
              ret |-> bch2_fs_sectors_used(bch2_fs_usage_read)])

FsUsageReadShort ==
    UsedCall([op |-> "read_short", u |-> bch2_fs_usage_read,
              ret |-> __bch2_fs_usage_read_short])

AvailFactor(r) ==
    /\ UsedFrame
    /\ r_last' = [op |-> "avail_factor", r |-> r, ret |-> avail_factor(r),
                  back |-> reserve_factor(avail_factor(r))]

\* the slow path of bch2_disk_reservation_add asked for all it computes as
\* available: sectors_available = avail_factor(free), then
\* online_reserved += sectors
ReserveAllAvailable ==
    \E short \in {__bch2_fs_usage_read_short} :
       \E sectors \in {avail_factor(short.free)} :
          UsedCall([op |-> "reserve_all", u |-> bch2_fs_usage_read,
                    free |-> short.free, sectors |-> sectors,
                    after |-> fs_usage_read_short(
                                  [bch2_fs_usage_read EXCEPT
                                     !.online_reserved = @ + sectors])])

UsedNext ==
    \/ \E r \in 0..MaxReserved : ReserveFactor(r)
    \/ \E r \in 0..MaxReserved : AvailFactor(r)
    \/ FsSectorsUsed
    \/ FsUsageReadShort
    \/ ReserveAllAvailable

\* r / 64 rounded up
CeilDiv64(r) == (r \div 64) + (IF r % 64 = 0 THEN 0 ELSE 1)

\* C24: reserve_factor(r) is r + ceil(r / 64); the used figure is
\* min(hidden + btree + data + reserve_factor(reserved + online_reserved),
\* capacity) and so at most the capacity; and the short read's free is the
\* capacity less that used figure, never negative, its own used being the
\* same figure less the hidden sectors and at most its own capacity
C24_ReserveFactorAndUsedClamp ==
    /\ r_last.op = "reserve_factor"
         => r_last.ret = r_last.r + CeilDiv64(r_last.r)
    /\ r_last.op = "sectors_used"
         => LET u == r_last.u
            IN  /\ r_last.ret
                     = Min(u.hidden + u.btree + u.data
                             + (u.reserved + u.online_reserved)
                             + CeilDiv64(u.reserved + u.online_reserved),
                           Capacity)
                /\ r_last.ret <= Capacity
    /\ r_last.op = "read_short"
         => LET u == r_last.u
                used == Min(u.hidden + u.btree + u.data
                              + (u.reserved + u.online_reserved)
                              + CeilDiv64(u.reserved + u.online_reserved),
                            Capacity)
            IN  /\ r_last.ret.used <= r_last.ret.capacity
                /\ r_last.ret.free >= 0
                /\ r_last.ret.free = Capacity - used
                /\ r_last.ret.used = used - u.hidden

\* reserve_factor(1000) = 1016 was computed
C24_Witness ==
    /\ r_last.op = "reserve_factor"
    /\ r_last.r = 1000
    /\ r_last.ret = 1016

\* C35: avail_factor(x) is 64 * x / 65 rounded down and
\* reserve_factor(avail_factor(x)) <= x; reserving all that the slow path
\* computes as available from the free space raises the used figure by no
\* more than that free space.
C35_AvailFactorInvertsReserveFactor ==
    /\ r_last.op = "avail_factor"
         => /\ r_last.ret = (64 * r_last.r) \div 65
            /\ r_last.back = r_last.ret + CeilDiv64(r_last.ret)
            /\ r_last.back <= r_last.r
    /\ r_last.op = "reserve_all"
         => LET u == r_last.u
                Used(reserved) ==
                    u.data + u.btree + reserved + CeilDiv64(reserved)
            IN  /\ r_last.sectors = (64 * r_last.free) \div 65
                /\ Used(u.reserved + u.online_reserved + r_last.sectors)
                     <= Used(u.reserved + u.online_reserved) + r_last.free
                /\ r_last.after.used <= r_last.after.capacity

\* avail_factor(1030) = 1014 and reserve_factor(1014) = 1030
C35_Witness ==
    /\ r_last.op = "avail_factor"
    /\ r_last.r = 1030
    /\ r_last.ret = 1014
    /\ r_last.back = 1030

(***************************************************************************)
(* SpecResize: one device's bucket table under bch2_dev_buckets_resize,    *)
(* step by step, next to a marker that updates a bucket under mark_lock    *)
(* held shared and a reader that dereferences ca->buckets[0] inside an rcu *)
(* read-side critical section.  The mark of a bucket is carried as its     *)
(* sector count; the free lists and the allocation heap are not carried.   *)
(***************************************************************************)
MaxResizes == 2
MaxNbuckets == 2
MaxRszMarks == 1

RszMarkers == {1}
RszReaders == {1}

\* BITS_TO_LONGS(nr) with 64-bit longs
BITS_TO_LONGS(nr) == (nr + 63) \div 64

\* kvpmalloc(..., __GFP_ZERO) of a bucket_array with nbuckets buckets
ZeroTable(n) == [nbuckets |-> n, b |-> [i \in 0..(n - 1) |-> 0], freed |-> FALSE]

\* kvpmalloc(..., __GFP_ZERO) of a bitmap for nbuckets buckets
ZeroBitmap(n) == [longs |-> BITS_TO_LONGS(n), bits |-> {}]

\* memcpy(dst->b, src->b, n * sizeof(struct bucket))
memcpy_buckets(dst, src, n) ==
    [dst EXCEPT !.b = [i \in DOMAIN dst.b |-> IF i < n THEN src.b[i] ELSE dst.b[i]]]

\* memcpy(dst, src, nlongs * sizeof(unsigned long)) on bitmaps
memcpy_longs(dst, src, nlongs) ==
    [dst EXCEPT !.bits = { i \in dst.bits : i >= nlongs * 64 }
                           \cup { i \in src.bits : i < nlongs * 64 }]

\* size_t n = min(buckets->nbuckets, old_buckets->nbuckets)
resize_copy_n(new_n, old_n) == MinOf({new_n, old_n})

\* percpu_down_write() entering although the lock is held shared
percpu_down_write_unfair(L) == ~L.mark_w
\* percpu_down_write() can enter: no writer and no shared holder
percpu_down_write_may_enter(L) == ~L.mark_w /\ L.mark_r = {}

\* the grace period of a call_rcu is over: every read-side critical section
\* that was open when it was queued has ended
rcu_grace_period_over(cb) == cb.wait = {}

RszProvisioned(marks, bits) ==
    /\ rz_tables = << [nbuckets |-> Len(marks),
                       b |-> [i \in 0..(Len(marks) - 1) |-> marks[i + 1]],
                       freed |-> FALSE] >>
    /\ rz_pub = 1
    /\ rz_nouse = [longs |-> BITS_TO_LONGS(Len(marks)), bits |-> bits]

\* a device before bch2_dev_buckets_alloc, or one whose table of MaxNbuckets
\* buckets holds sectors in bucket 0 and has any of its buckets out of use
RszInit ==
    /\ \/ rz_tables = <<>> /\ rz_pub = 0 /\ rz_nouse = [longs |-> 0, bits |-> {}]
       \/ \E bits \in SUBSET (0..(MaxNbuckets - 1)) :
              RszProvisioned([i \in 1..MaxNbuckets |-> IF i = 1 THEN 8 ELSE 0], bits)
    /\ rz_lock = NoLocks
    /\ rz_pc = "idle"
    /\ rz_loc = NoCall
    /\ rz_n = 0
    /\ rz_mk = [m \in RszMarkers |-> [pc |-> "idle", g |-> 0, n |-> 0]]
    /\ rz_rd = [r \in RszReaders |-> [pc |-> "idle", g |-> 0]]
    /\ rz_rcu = {}

\* lines 2312-2334: the allocations.  alloc names the first one that fails
RszBegin(nb, alloc) ==
    /\ rz_pc = "idle"
    /\ rz_n < MaxResizes
    /\ rz_n' = rz_n + 1
    /\ LET loc == [op |-> "resize", nbuckets |-> nb, resize |-> rz_pub # 0,
                   buckets |-> 0, old_buckets |-> 0,
                   buckets_nouse |-> [longs |-> 0, bits |-> {}], ret |-> -12]
       IN  CASE alloc = "buckets" ->
                  \* goto err with buckets == NULL: nothing to free
                  /\ rz_loc' = loc
                  /\ rz_pc' = "idle"
                  /\ UNCHANGED rz_tables
             [] alloc = "later" ->
                  \* goto err with buckets != NULL and old_buckets == NULL:
                  \* call_rcu(&old_buckets->rcu, ...) writes through NULL
                  /\ rz_tables' = Append(rz_tables, ZeroTable(nb))
                  /\ rz_loc' = [loc EXCEPT !.buckets = Len(rz_tables) + 1]
                  /\ rz_pc' = "oops"
             [] OTHER ->
                  /\ rz_tables' = Append(rz_tables, ZeroTable(nb))
                  /\ rz_loc' = [loc EXCEPT !.buckets = Len(rz_tables) + 1,
                                           !.buckets_nouse = ZeroBitmap(nb)]
                  /\ rz_pc' = "lock"
    /\ UNCHANGED <<rz_pub, rz_nouse, rz_lock, rz_mk, rz_rd, rz_rcu>>
    /\ UNCHANGED rszOthers

\* lines 2338-2342: down_write(gc_lock), down_write(bucket_lock),
\* percpu_down_write(mark_lock)
RszLock ==
    /\ rz_pc = "lock"
    /\ IF rz_loc.resize
       THEN /\ percpu_down_write_may_enter(rz_lock)
            /\ rz_lock' = [rz_lock EXCEPT !.gc = TRUE, !.bucket = TRUE,
                                          !.mark_w = TRUE]
       ELSE UNCHANGED rz_lock
    /\ rz_pc' = "copy"
    /\ UNCHANGED <<rz_tables, rz_pub, rz_nouse, rz_loc, rz_n, rz_mk, rz_rd, rz_rcu>>
    /\ UNCHANGED rszOthers

\* lines 2344-2355: old_buckets = bucket_array(ca) and the two memcpy
RszCopy ==
    /\ rz_pc = "copy"
    /\ rz_loc' = [rz_loc EXCEPT
           !.old_buckets = rz_pub,
           !.buckets_nouse =
               IF rz_loc.resize
               THEN memcpy_longs(@, rz_nouse,
                        BITS_TO_LONGS(resize_copy_n(rz_loc.nbuckets,
                                                    rz_tables[rz_pub].nbuckets)))
               ELSE @]
    /\ rz_tables' =
           IF rz_loc.resize
           THEN [rz_tables EXCEPT ![rz_loc.buckets] =
                    memcpy_buckets(@, rz_tables[rz_pub],
                        resize_copy_n(rz_loc.nbuckets, rz_tables[rz_pub].nbuckets))]
           ELSE rz_tables
    /\ rz_pc' = "publish"
    /\ UNCHANGED <<rz_pub, rz_nouse, rz_lock, rz_n, rz_mk, rz_rd, rz_rcu>>
    /\ UNCHANGED rszOthers

\* lines 2357-2360: rcu_assign_pointer(ca->buckets[0], buckets);
\* buckets = old_buckets; swap(ca->buckets_nouse, buckets_nouse)
RszPublish ==
    /\ rz_pc = "publish"
    /\ rz_pub' = rz_loc.buckets
    /\ rz_nouse' = rz_loc.buckets_nouse
    /\ rz_loc' = [rz_loc EXCEPT !.buckets = rz_loc.old_buckets,
                                !.buckets_nouse = rz_nouse]
    /\ rz_pc' = "unlock"
    /\ UNCHANGED <<rz_tables, rz_lock, rz_n, rz_mk, rz_rd, rz_rcu>>
    /\ UNCHANGED rszOthers

\* lines 2362-2382: percpu_up_write(mark_lock), up_write(gc_lock), the free
\* lists and the heap swapped in, up_write(bucket_lock)
RszUnlock ==
    /\ rz_pc = "unlock"
    /\ rz_lock' = IF rz_loc.resize
                  THEN [rz_lock EXCEPT !.gc = FALSE, !.bucket = FALSE,
                                       !.mark_w = FALSE]
                  ELSE rz_lock
    /\ rz_pc' = "free"
    /\ UNCHANGED <<rz_tables, rz_pub, rz_nouse, rz_loc, rz_n, rz_mk, rz_rd, rz_rcu>>
    /\ UNCHANGED rszOthers

\* lines 2384-2395: ret = 0; the old bitmap is freed; if (buckets)
\* call_rcu(&old_buckets->rcu, buckets_free_rcu)
RszFree ==
    /\ rz_pc = "free"
    /\ rz_rcu' = IF rz_loc.buckets # 0
                 THEN rz_rcu \cup
                      { [tbl |-> rz_loc.old_buckets,
                         wait |-> { r \in RszReaders : rz_rd[r].pc = "in" }] }
                 ELSE rz_rcu
    /\ rz_loc' = [rz_loc EXCEPT !.ret = 0]
    /\ rz_pc' = "idle"
    /\ UNCHANGED <<rz_tables, rz_pub, rz_nouse, rz_lock, rz_n, rz_mk, rz_rd>>
    /\ UNCHANGED rszOthers

\* buckets_free_rcu, run by rcu once the grace period is over
RszFreeRcu(cb) ==
    /\ cb \in rz_rcu
    /\ rcu_grace_period_over(cb)
    /\ rz_tables' = [rz_tables EXCEPT ![cb.tbl].freed = TRUE]
    /\ rz_rcu' = rz_rcu \ {cb}
    /\ UNCHANGED <<rz_pub, rz_nouse, rz_lock, rz_pc, rz_loc, rz_n, rz_mk, rz_rd>>
    /\ UNCHANGED rszOthers

\* bch2_mark_key: percpu_down_read(mark_lock), then the mark function looks
\* up g in bucket_array(ca)
RszMarkLock(m) ==
    /\ rz_mk[m].pc = "idle"
    /\ rz_mk[m].n < MaxRszMarks
    /\ rz_pub # 0
    /\ ~rz_lock.mark_w
    /\ rz_lock' = [rz_lock EXCEPT !.mark_r = @ \cup {m}]
    /\ rz_mk' = [rz_mk EXCEPT ![m] = [pc |-> "locked", g |-> rz_pub, n |-> @.n + 1]]
    /\ UNCHANGED <<rz_tables, rz_pub, rz_nouse, rz_pc, rz_loc, rz_n, rz_rd, rz_rcu>>
    /\ UNCHANGED rszOthers

\* the compare-and-exchange of the mark function adds sectors to bucket b
RszMarkUpdate(m, b) ==
    /\ rz_mk[m].pc = "locked"
    /\ b < rz_tables[rz_mk[m].g].nbuckets
    /\ rz_tables' = [rz_tables EXCEPT ![rz_mk[m].g].b[b] = @ + 1]
    /\ rz_mk' = [rz_mk EXCEPT ![m].pc = "marked"]
    /\ UNCHANGED <<rz_pub, rz_nouse, rz_lock, rz_pc, rz_loc, rz_n, rz_rd, rz_rcu>>
    /\ UNCHANGED rszOthers

\* bch2_mark_key: percpu_up_read(mark_lock)
RszMarkUnlock(m) ==
    /\ rz_mk[m].pc = "marked"
    /\ rz_lock' = [rz_lock EXCEPT !.mark_r = @ \ {m}]
    /\ rz_mk' = [rz_mk EXCEPT ![m].pc = "idle", ![m].g = 0]
    /\ UNCHANGED <<rz_tables, rz_pub, rz_nouse, rz_pc, rz_loc, rz_n, rz_rd, rz_rcu>>
    /\ UNCHANGED rszOthers

\* rcu_read_lock(); rcu_dereference(ca->buckets[0])
RszRcuReadLock(r) ==
    /\ rz_rd[r].pc = "idle"
    /\ rz_pub # 0
    /\ rz_rd' = [rz_rd EXCEPT ![r] = [pc |-> "in", g |-> rz_pub]]
    /\ UNCHANGED <<rz_tables, rz_pub, rz_nouse, rz_lock, rz_pc, rz_loc, rz_n,
                   rz_mk, rz_rcu>>
    /\ UNCHANGED rszOthers

\* rcu_read_unlock(): the reader no longer holds up any grace period
RszRcuReadUnlock(r) ==
    /\ rz_rd[r].pc = "in"
    /\ rz_rd' = [rz_rd EXCEPT ![r].pc = "idle", ![r].g = 0]
    /\ rz_rcu' = { [cb EXCEPT !.wait = @ \ {r}] : cb \in rz_rcu }
    /\ UNCHANGED <<rz_tables, rz_pub, rz_nouse, rz_lock, rz_pc, rz_loc, rz_n, rz_mk>>
    /\ UNCHANGED rszOthers

ResizeNext ==
    \/ \E n \in 1..MaxNbuckets : RszBegin(n, "none")
    \/ \E n \in 1..MaxNbuckets, a \in {"buckets", "later"} : RszBegin(n, a)
    \/ RszLock
    \/ RszCopy
    \/ RszPublish
    \/ RszUnlock
    \/ RszFree
    \/ \E cb \in rz_rcu : RszFreeRcu(cb)
    \/ \E m \in RszMarkers : RszMarkLock(m)
    \/ \E m \in RszMarkers, b \in 0..(MaxNbuckets - 1) : RszMarkUpdate(m, b)
    \/ \E m \in RszMarkers : RszMarkUnlock(m)
    \/ \E r \in RszReaders : RszRcuReadLock(r)
    \/ \E r \in RszReaders : RszRcuReadUnlock(r)

\* the not-in-use bit of bucket i in a bitmap
nouse_bit(bm, i) == i \in bm.bits

\* C22: the step that publishes the new table of a resize leaves every bucket
\* below min(n_old, n_new) with the mark and the not-in-use bit it had in the
\* old table, and every bucket from n_old on with a zero mark and a clear
\* not-in-use bit
C22_ResizeKeepsPrefixAndZeroesRest ==
    [][(rz_pc = "publish" /\ rz_pc' = "unlock" /\ rz_pub # 0)
        => LET old == rz_tables[rz_pub]
               new == rz_tables'[rz_pub']
           IN  /\ \A i \in 0..(MinOf({old.nbuckets, new.nbuckets}) - 1) :
                      /\ new.b[i] = old.b[i]
                      /\ nouse_bit(rz_nouse', i) = nouse_bit(rz_nouse, i)
               /\ \A i \in old.nbuckets..(new.nbuckets - 1) :
                      /\ new.b[i] = 0
                      /\ ~nouse_bit(rz_nouse', i)]_vars

\* C23: from the resize's lock to its unlock mark_lock is held exclusively
\* and no marker is inside its shared section; until the new table is
\* published it agrees with the old one on every copied bucket, so no update
\* is lost; a marker's table is the published one; and no table is freed
\* while it is published or while a marker or an rcu reader holds it
C23_ResizeExcludesMarkersAndDefersFree ==
    /\ (rz_pc \in {"copy", "publish", "unlock"} /\ rz_loc.resize)
         => /\ rz_lock.mark_w
            /\ rz_lock.mark_r = {}
            /\ \A m \in RszMarkers : rz_mk[m].pc = "idle"
    /\ (rz_pc = "publish" /\ rz_loc.resize)
         => \A i \in 0..(MinOf({rz_tables[rz_loc.buckets].nbuckets,
                                rz_tables[rz_pub].nbuckets}) - 1) :
                rz_tables[rz_loc.buckets].b[i] = rz_tables[rz_pub].b[i]
    /\ \A m \in RszMarkers :
           rz_mk[m].pc # "idle"
             => rz_mk[m].g = rz_pub /\ ~rz_tables[rz_mk[m].g].freed
    /\ \A r \in RszReaders :
           rz_rd[r].pc = "in" => ~rz_tables[rz_rd[r].g].freed
    /\ rz_pub # 0 => ~rz_tables[rz_pub].freed

\* a marker added a sector to bucket 0 of the first table, a resize then
\* published a second table that carries the update, and the first table
\* waits in call_rcu for the reader that still holds it
C23_Witness ==
    /\ rz_pub = 2
    /\ rz_mk[1].n = 1
    /\ rz_mk[1].pc = "idle"
    /\ rz_tables[1].b[0] = 9
    /\ rz_tables[2].b[0] = 9
    /\ ~rz_tables[1].freed
    /\ rz_rd[1].pc = "in"
    /\ rz_rd[1].g = 1
    /\ [tbl |-> 1, wait |-> {1}] \in rz_rcu

(***************************************************************************)
(* SpecPaths: one key mutation marked on both paths from the same state.   *)
(* The immediate path is bch2_mark_key_locked on the live state; the       *)
(* transactional path is bch2_trans_mark_key in an empty transaction over  *)
(* the same live state, followed by bch2_replicas_delta_list_apply of its  *)
(* delta list to the filesystem usage of that state.  The live state then  *)
(* moves on as the immediate path left it, and an update of the stripes    *)
(* btree is inserted into the btree.  mk_last holds both outcomes.         *)
(***************************************************************************)
MaxPathOps == 2

\* the entries of SpecStripe, the entry of the stripe key itself and the
\* entry of an extent with a dirty copy on device 1 beside an erasure coded
\* copy
PathsLedger ==
    ReplicasEntries
        \cup {StripeUserEntry, stripe_to_replicas(FullStripeKey(0)),
              ReplicasEntry(BCH_DATA_user, 0, {1})}

\* the live state of SpecTrans with the ledger e
PathsLive(e) ==
    [TransLive EXCEPT
        !.c_usage.replicas = [x \in e |-> IF x \in DOMAIN @ THEN @[x] ELSE 0]]

\* the start: every entry present, or the cached entry of device 0 missing
PathsInitStates ==
    { PathsLive(PathsLedger),
      PathsLive(PathsLedger \ {bch2_replicas_entry_cached(0)}) }

PathsInit ==
    /\ \E S0 \in PathsInitStates :
          /\ buckets = S0.buckets
          /\ dev_usage = S0.dev_usage
          /\ c_usage = S0.c_usage
          /\ stripes = S0.stripes
    /\ btrees = [b \in {BTREE_ID_EC, BTREE_ID_REFLINK} |->
                   IF b = BTREE_ID_EC
                   THEN [i \in {0, 1, 2} |->
                           IF i = 0 THEN FullStripeKey(0) ELSE DeletedAt(i)]
                   ELSE [st \in {0, TransSectors} |->
                           IF st = 0 THEN ReflinkV(0, TransSectors, 1)
                           ELSE Hole(TransSectors, TransSectors)]]
    /\ trans_updates = <<>>
    /\ fs_usage_deltas = NoDeltaList
    /\ mk_sum = [dirty |-> 0, cached |-> 0]
    /\ btree_keys = {}
    /\ mk_nops = 0
    /\ mk_last = NoCall
    /\ mk_prev = NoCall

\* extents and a btree node pointer into the bucket of device 0: the
\* pointers of SpecTrans, a pointer of a generation newer than the bucket's,
\* two pointers (one dirty, one cached, on devices 0 and 1), and a dirty
\* copy on device 1 beside an erasure coded copy, without and with a
\* cached copy
PathsPtrKeys ==
    TransExtents
    \cup { Key(KEY_TYPE_extent, 0, TransSectors,
               <<ExtentPtr(0, 2, FALSE, 1, 1)>>),
           Key(KEY_TYPE_extent, 0, TransSectors,
               <<ExtentPtr(0, 1, FALSE, 1, 1), ExtentPtr(1, 1, TRUE, 1, 1)>>),
           Key(KEY_TYPE_extent, 0, TransSectors,
               <<ExtentPtr(0, 1, TRUE, 1, 1), ExtentPtr(1, 1, FALSE, 1, 1)>>),
           Key(KEY_TYPE_extent, 0, TransSectors,
               <<ExtentPtr(1, 1, FALSE, 1, 1), EcPtr(0, 1, 0, 0)>>),
           Key(KEY_TYPE_extent, 0, TransSectors,
               <<EcPtr(0, 1, 0, 0), ExtentPtr(1, 1, FALSE, 1, 1),
                 ExtentPtr(1, 1, TRUE, 1, 1)>>),
           Key(KEY_TYPE_btree_ptr, 0, BtreeNodeSize,
               <<ExtentPtr(1, 1, FALSE, 1, 1)>>),
           Key(KEY_TYPE_btree_ptr, 0, BtreeNodeSize,
               <<ExtentPtr(0, 1, FALSE, 1, 1)>>) }

PathsReservations ==
    { ReservationKey(0, TransSectors, r) : r \in {0, 2, 5} }

PathsCalls ==
    { InsertOf(k) : k \in PathsPtrKeys \cup PathsReservations }
    \cup { OverwriteOf(k) : k \in PathsPtrKeys \cup PathsReservations }
    \cup TransSlotCalls

\* the mutation is an update of the stripes btree
IsStripeUpdate(c) ==
    KEY_TYPE_stripe \in {c.old.type, c.new.type}

\* An update of the stripes btree overwrites the key the btree holds.
MarkBothPaths(c) ==
    /\ mk_nops < MaxPathOps
    /\ IsStripeUpdate(c) => c.old = btrees[BTREE_ID_EC][c.new.pos]
    /\ \E imm \in {bch2_mark_key_locked(StripeState, c.old, c.new, c.offset,
                                        c.sectors, 0, c.flags)} :
       \E tr \in {bch2_trans_mark_key([updates |-> <<>>,
                                       deltas |-> NoDeltaList],
                                      LiveView, c.old, c.new, c.offset,
                                      c.sectors, c.flags, TRUE)} :
       \E ap \in {bch2_replicas_delta_list_apply(c_usage, tr.T.deltas)} :
          /\ SetMarkState(imm.S)
          /\ stripes' = imm.S.stripes
          /\ btrees' = IF IsStripeUpdate(c)
                       THEN [btrees EXCEPT ![BTREE_ID_EC][c.new.pos] = c.new]
                       ELSE btrees
          /\ trans_updates' = tr.T.updates
          /\ fs_usage_deltas' = tr.T.deltas
          /\ mk_last' = [op |-> "both", call |-> c,
                         pre |-> [buckets |-> buckets, c_usage |-> c_usage,
                                  ec |-> btrees[BTREE_ID_EC]],
                         imm |-> [ret |-> imm.ret, buckets |-> imm.S.buckets,
                                  c_usage |-> imm.S.c_usage,
                                  deltas |-> imm.deltas, rets |-> imm.rets],
                         tr |-> [ret |-> tr.ret, updates |-> tr.T.updates,
                                 d |-> tr.T.deltas.d],
                         ap |-> ap]
    /\ mk_nops' = mk_nops + 1
    /\ mk_prev' = mk_last
    /\ UNCHANGED <<btree_keys, mk_sum, ecOthers>>

PathsNext == \E c \in PathsCalls : MarkBothPaths(c)

MarkedBoth == mk_last.op = "both"

\* the four fields of an allocation record or of a bucket mark
AllocFields(x) ==
    <<x.gen, x.data_type, x.dirty_sectors, x.cached_sectors>>

\* the staged allocation records hold what the immediate path left in the
\* live buckets, and a bucket without a staged record was left alone
StagedMatchesLive ==
    \A dev \in Devs :
        IF <<BTREE_ID_ALLOC, dev>> \in DOMAIN mk_last.tr.updates
        THEN AllocFields(mk_last.tr.updates[<<BTREE_ID_ALLOC, dev>>])
                = AllocFields(mk_last.imm.buckets[dev])
        ELSE AllocFields(mk_last.imm.buckets[dev])
                = AllocFields(mk_last.pre.buckets[dev])

SameOutcome == mk_last.imm.ret = mk_last.tr.ret

\* the delta list applied to the usage of the starting state gives the
\* usage the immediate path left
SameUsage ==
    /\ mk_last.ap.fs_usage.replicas = mk_last.imm.c_usage.replicas
    /\ mk_last.ap.fs_usage.nr_inodes = mk_last.imm.c_usage.nr_inodes
    /\ mk_last.ap.fs_usage.reserved = mk_last.imm.c_usage.reserved
    /\ mk_last.ap.fs_usage.persistent_reserved
         = mk_last.imm.c_usage.persistent_reserved

\* the key the call dispatches on
CallKey(c) == IF BTREE_TRIGGER_INSERT \in c.flags THEN c.new ELSE c.old

\* every entry on the delta list is in the replicas table
DeltaEntriesPresent ==
    \A i \in 1..Len(mk_last.tr.d) :
        mk_last.tr.d[i].r \in DOMAIN mk_last.pre.c_usage.replicas

\* the last call marked an extent or a btree pointer on the immediate path
\* and returned 0
ExtentMarked ==
    /\ MarkedBoth
    /\ CallKey(mk_last.call).type \in {KEY_TYPE_extent, KEY_TYPE_btree_ptr}
    /\ mk_last.imm.ret = 0

ExtentDataType ==
    IF CallKey(mk_last.call).type = KEY_TYPE_btree_ptr
    THEN BCH_DATA_btree ELSE BCH_DATA_user

\* the pointers of the marked key by kind
DirtyPtrs ==
    { i \in 1..Len(CallKey(mk_last.call).ptrs) :
        ~CallKey(mk_last.call).ptrs[i].cached
        /\ ~CallKey(mk_last.call).ptrs[i].has_ec }

EcPtrs ==
    { i \in 1..Len(CallKey(mk_last.call).ptrs) :
        ~CallKey(mk_last.call).ptrs[i].cached
        /\ CallKey(mk_last.call).ptrs[i].has_ec }

CachedPtrs ==
    { i \in 1..Len(CallKey(mk_last.call).ptrs) :
        CallKey(mk_last.call).ptrs[i].cached }

\* the sum of the disk-sector deltas of the pointers in idx
RECURSIVE SumDeltas(_)
SumDeltas(idx) ==
    IF idx = {} THEN 0
    ELSE LET i == CHOOSE x \in idx : TRUE
         IN  mk_last.imm.deltas[i] + SumDeltas(idx \ {i})

\* the entry for the extent's dirty copies
DirtyEntry ==
    ReplicasEntry(ExtentDataType, IF EcPtrs = {} THEN 1 ELSE 0,
                  { CallKey(mk_last.call).ptrs[i].dev : i \in DirtyPtrs })

\* the entry of the stripe an erasure coded pointer names
EcEntry(i) ==
    [stripe_to_replicas(
         mk_last.pre.ec[CallKey(mk_last.call).ptrs[i].ec.idx])
        EXCEPT !.data_type = ExtentDataType]

\* what the mark adds to entry e: the dirty sum if e is the dirty entry, the
\* delta of every accepted cached pointer whose device's cached entry e is,
\* the delta of every erasure coded pointer whose stripe's entry e is
ExpectedEntryChange(e) ==
    (IF DirtyPtrs # {} /\ e = DirtyEntry THEN SumDeltas(DirtyPtrs) ELSE 0)
    + SumDeltas({ i \in CachedPtrs :
                    /\ mk_last.imm.rets[i] = 0
                    /\ e = bch2_replicas_entry_cached(
                               CallKey(mk_last.call).ptrs[i].dev) })
    + SumDeltas({ i \in EcPtrs : e = EcEntry(i) })

\* C31: a successful bch2_mark_extent adds the sum of the disk-sector deltas
\* of the key's dirty pointers without erasure coding to the entry that
\* lists exactly their devices, with nr_required 0 if the key has an
\* erasure coded pointer and 1 otherwise; an erasure coded pointer adds its
\* delta to the entry of its stripe and nothing to the dirty entry; an
\* accepted cached pointer adds its delta to the cached entry of its device
\* and to no other entry; no other entry changes.  The transaction's delta
\* list, applied, moves the entries by the same amounts.
C31_DirtyEntryListsDirtyDevices ==
    (ExtentMarked /\ DeltaEntriesPresent) =>
        \A e \in DOMAIN mk_last.pre.c_usage.replicas :
            /\ mk_last.imm.c_usage.replicas[e]
                 = mk_last.pre.c_usage.replicas[e] + ExpectedEntryChange(e)
            /\ mk_last.ap.fs_usage.replicas[e]
                 = mk_last.pre.c_usage.replicas[e] + ExpectedEntryChange(e)

\* an extent with an erasure coded copy, a dirty copy and a cached copy was
\* inserted: the entry of the dirty copy's device with nr_required 0, the
\* stripe's entry and the cached entry each received the extent's sectors
C31_Witness ==
    /\ ExtentMarked
    /\ BTREE_TRIGGER_INSERT \in mk_last.call.flags
    /\ EcPtrs # {} /\ DirtyPtrs # {} /\ CachedPtrs # {}
    /\ mk_last.imm.rets = <<0, 0, 0>>
    /\ DirtyEntry = ReplicasEntry(BCH_DATA_user, 0, {1})
    /\ mk_last.imm.c_usage.replicas[DirtyEntry]
         = mk_last.pre.c_usage.replicas[DirtyEntry] + TransSectors
    /\ mk_last.imm.c_usage.replicas[StripeUserEntry]
         = mk_last.pre.c_usage.replicas[StripeUserEntry] + TransSectors
    /\ mk_last.imm.c_usage.replicas[bch2_replicas_entry_cached(1)]
         = mk_last.pre.c_usage.replicas[bch2_replicas_entry_cached(1)]
           + TransSectors

\* the keys both paths mark alike: pointers, inodes and reservations
PathsKeyTypes ==
    {KEY_TYPE_extent, KEY_TYPE_btree_ptr, KEY_TYPE_inode, KEY_TYPE_reservation}

MaxCounterOps == 3

InodePositions == {0, 1}

\* nr_replicas of the reservations: below, inside and above the array
ReservationReplicas == {0, 1, 2, 4, 5}

\* sector deltas: a reservation inserted, overwritten whole and in part
ReservationSectors == {TransSectors, -TransSectors, -3}

CountersInit ==
    /\ buckets = EmptyMarkState.buckets
    /\ dev_usage = EmptyMarkState.dev_usage
    /\ c_usage = EmptyMarkState.c_usage
    /\ stripes = [i \in {0, 1} |-> StripeZero]
    /\ btrees = [b \in {BTREE_ID_INODES} |->
                   [i \in InodePositions |-> DeletedAt(i)]]
    /\ trans_updates = <<>>
    /\ fs_usage_deltas = NoDeltaList
    /\ mk_sum = [dirty |-> 0, cached |-> 0]
    /\ btree_keys = {}
    /\ mk_nops = 0
    /\ mk_last = NoCall
    /\ mk_prev = NoCall

\* bch2_trans_mark_update on a btree that is not an extents btree: one mark
\* with INSERT|OVERWRITE when old and new have the same type, else the
\* INSERT mark and, if it returned 0, the OVERWRITE mark
bch2_trans_mark_update_slot(T, L, old, new, krealloc_ok) ==
    IF old.type = new.type
    THEN bch2_trans_mark_key(T, L, old, new, 0, 0,
                             {BTREE_TRIGGER_INSERT, BTREE_TRIGGER_OVERWRITE},
                             krealloc_ok)
    ELSE LET Second(r1) ==
                 IF r1.bug \/ r1.ret # 0 THEN r1
                 ELSE bch2_trans_mark_key(r1.T, L, old, new, 0, 0,
                                          {BTREE_TRIGGER_OVERWRITE},
                                          krealloc_ok)
         IN  TheOne({ Second(r1) :
                        r1 \in {bch2_trans_mark_key(
                                    T, L, old, new, 0, 0,
                                    {BTREE_TRIGGER_INSERT}, krealloc_ok)} })

CounterStep(rec) ==
    /\ mk_last' = rec
    /\ mk_prev' = mk_last
    /\ mk_nops' = mk_nops + 1
    /\ UNCHANGED <<btree_keys, mk_sum, stripes, trans_updates, ecOthers>>

\* an update of a position of the inodes btree, marked immediately
MarkInodeUpdate(pos, new) ==
    /\ mk_nops < MaxCounterOps
    /\ LET old == btrees[BTREE_ID_INODES][pos]
       IN  \E r \in {bch2_mark_update_slot(StripeState, old, new, 1)} :
              /\ SetMarkState(r.S)
              /\ btrees' = [btrees EXCEPT ![BTREE_ID_INODES][pos] = new]
              /\ UNCHANGED fs_usage_deltas
              /\ CounterStep([op |-> "inode", path |-> "immediate",
                              old |-> old, new |-> new,
                              ncalls |-> Len(r.rets),
                              pre_nr |-> c_usage.nr_inodes])

\* an update of a position of the inodes btree, marked in the transaction
TransMarkInodeUpdate(pos, new) ==
    /\ mk_nops < MaxCounterOps
    /\ LET old == btrees[BTREE_ID_INODES][pos]
       IN  \E r \in {bch2_trans_mark_update_slot(Trans, LiveView, old, new,
                                                 TRUE)} :
              /\ fs_usage_deltas' = r.T.deltas
              /\ btrees' = [btrees EXCEPT ![BTREE_ID_INODES][pos] = new]
              /\ UNCHANGED <<buckets, dev_usage, c_usage>>
              /\ CounterStep([op |-> "inode", path |-> "trans",
                              old |-> old, new |-> new, ret |-> r.ret,
                              pre_nr |-> fs_usage_deltas.nr_inodes])

\* bch2_mark_key_locked of a reservation key with sector delta s
MarkReservation(k, s) ==
    /\ mk_nops < MaxCounterOps
    /\ \E r \in {bch2_mark_key_locked(
                     StripeState,
                     IF s > 0 THEN DeletedKey ELSE k,
                     IF s > 0 THEN k ELSE DeletedKey, 0, s, 1,
                     IF s > 0 THEN {BTREE_TRIGGER_INSERT}
                     ELSE {BTREE_TRIGGER_OVERWRITE})} :
          /\ SetMarkState(r.S)
          /\ UNCHANGED <<btrees, fs_usage_deltas>>
          /\ CounterStep([op |-> "reservation", path |-> "immediate",
                          key |-> k, sectors |-> s, ret |-> r.ret,
                          pre_reserved |-> c_usage.reserved,
                          pre_slots |-> c_usage.persistent_reserved])

\* bch2_trans_mark_key of a reservation key with sector delta s
TransMarkReservation(k, s) ==
    /\ mk_nops < MaxCounterOps
    /\ \E r \in {bch2_trans_mark_key(
                     Trans, LiveView,
                     IF s > 0 THEN DeletedKey ELSE k,
                     IF s > 0 THEN k ELSE DeletedKey, 0, s,
                     IF s > 0 THEN {BTREE_TRIGGER_INSERT}
                     ELSE {BTREE_TRIGGER_OVERWRITE}, TRUE)} :
          /\ fs_usage_deltas' = r.T.deltas
          /\ UNCHANGED <<buckets, dev_usage, c_usage, btrees>>
          /\ CounterStep([op |-> "reservation", path |-> "trans",
                          key |-> k, sectors |-> s, ret |-> r.ret,
                          pre_reserved |-> c_usage.reserved,
                          pre_slots |-> fs_usage_deltas.persistent_reserved])

\* the commit: bch2_replicas_delta_list_apply of the transaction's list to
\* the filesystem usage; the next transaction starts with an empty list
ApplyCounterDeltas ==
    /\ mk_nops < MaxCounterOps
    /\ fs_usage_deltas # NoDeltaList
    /\ \E r \in {bch2_replicas_delta_list_apply(c_usage, fs_usage_deltas)} :
          /\ c_usage' = r.fs_usage
          /\ fs_usage_deltas' = NoDeltaList
          /\ UNCHANGED <<buckets, dev_usage, btrees>>
          /\ CounterStep([op |-> "apply", ret |-> r.ret,
                          list |-> fs_usage_deltas,
                          pre_nr |-> c_usage.nr_inodes,
                          pre_reserved |-> c_usage.reserved,
                          pre_slots |-> c_usage.persistent_reserved])

CountersNext ==
    \/ \E pos \in InodePositions :
          \E new \in {InodeKey(pos), DeletedAt(pos)} :
             MarkInodeUpdate(pos, new)
    \/ \E pos \in InodePositions :
          \E new \in {InodeKey(pos), DeletedAt(pos)} :
             TransMarkInodeUpdate(pos, new)
    \/ \E r \in ReservationReplicas, s \in ReservationSectors :
          MarkReservation(ReservationKey(0, TransSectors, r), s)
    \/ \E r \in ReservationReplicas, s \in ReservationSectors :
          TransMarkReservation(ReservationKey(0, TransSectors, r), s)
    \/ ApplyCounterDeltas

IsInode(k) == IF k.type = KEY_TYPE_inode THEN 1 ELSE 0

\* the inodes the btree holds
InodesInBtree ==
    Cardinality({ pos \in InodePositions :
                    btrees[BTREE_ID_INODES][pos].type = KEY_TYPE_inode })

\* C29: an update that replaces old by new at a position of the inodes
\* btree changes the inode counter of its path (fs_usage->nr_inodes on the
\* immediate path, the delta list's nr_inodes on the transactional path) by
\* (new is an inode) - (old is an inode): +1 for an inode over a deleted
\* key, -1 for a deleted key over an inode, 0 for an inode over an inode or
\* a deleted key over a deleted key; the immediate path makes one call when
\* the types are equal and two when they differ; applying the delta list
\* adds its nr_inodes to the counter, so that the counter and the pending
\* list together count the inodes in the btree.
C29_InodeCounterIsNewMinusOld ==
    /\ (mk_last.op = "inode" /\ mk_last.path = "immediate") =>
          /\ c_usage.nr_inodes
               = mk_last.pre_nr + IsInode(mk_last.new) - IsInode(mk_last.old)
          /\ mk_last.ncalls
               = (IF mk_last.old.type = mk_last.new.type THEN 1 ELSE 2)
    /\ (mk_last.op = "inode" /\ mk_last.path = "trans") =>
          /\ mk_last.ret = 0
          /\ fs_usage_deltas.nr_inodes
               = mk_last.pre_nr + IsInode(mk_last.new) - IsInode(mk_last.old)
    /\ mk_last.op = "apply" =>
          c_usage.nr_inodes = mk_last.pre_nr + mk_last.list.nr_inodes
    /\ mk_last.op \in {"inode", "apply"} =>
          c_usage.nr_inodes + fs_usage_deltas.nr_inodes = InodesInBtree

\* an inode written over an inode on the immediate path with one call, the
\* counter staying at the two inodes the btree holds, one of them counted
\* by an applied delta list
C29_Witness ==
    /\ mk_last.op = "inode"
    /\ mk_last.path = "immediate"
    /\ mk_last.old.type = KEY_TYPE_inode
    /\ mk_last.new.type = KEY_TYPE_inode
    /\ mk_last.ncalls = 1
    /\ mk_prev.op = "apply"
    /\ mk_prev.list.nr_inodes = 1
    /\ c_usage.nr_inodes = mk_last.pre_nr
    /\ c_usage.nr_inodes = 1

\* the slot of the persistent_reserved array for nr_replicas r
ReservedSlot(r) ==
    IF r < 1 THEN 0 ELSE IF r > BCH_REPLICAS_MAX THEN BCH_REPLICAS_MAX - 1
    ELSE r - 1

\* C30: the mark of a reservation key with sector delta s and nr_replicas r
\* adds s * r to the slot clamp(r, 1, BCH_REPLICAS_MAX) - 1 of
\* persistent_reserved and leaves the other slots alone; on the immediate
\* path the slots and the total are those of the filesystem usage and the
\* total grows by s * r, on the transactional path the slots are the delta
\* list's, and applying the list adds every slot of the list to the usage's
\* slot and their sum to the reserved total.
C30_ReservationScaledIntoClampedSlot ==
    /\ mk_last.op = "reservation" =>
          LET r == mk_last.key.nr_replicas
              add == mk_last.sectors * r
              slots == IF mk_last.path = "immediate"
                       THEN c_usage.persistent_reserved
                       ELSE fs_usage_deltas.persistent_reserved
          IN  /\ mk_last.ret = 0
              /\ \A i \in 0..(BCH_REPLICAS_MAX - 1) :
                    slots[i] = mk_last.pre_slots[i]
                               + (IF i = ReservedSlot(r) THEN add ELSE 0)
              /\ c_usage.reserved
                    = mk_last.pre_reserved
                      + (IF mk_last.path = "immediate" THEN add ELSE 0)
    /\ mk_last.op = "apply" =>
          /\ \A i \in 0..(BCH_REPLICAS_MAX - 1) :
                c_usage.persistent_reserved[i]
                  = mk_last.pre_slots[i] + mk_last.list.persistent_reserved[i]
          /\ c_usage.reserved
                = mk_last.pre_reserved
                  + mk_last.list.persistent_reserved[0]
                  + mk_last.list.persistent_reserved[1]
                  + mk_last.list.persistent_reserved[2]
                  + mk_last.list.persistent_reserved[3]
    /\ (/\ mk_last.op = "apply"
        /\ mk_prev.op = "reservation"
        /\ mk_prev.path = "trans"
        /\ \A i \in 0..(BCH_REPLICAS_MAX - 1) : mk_prev.pre_slots[i] = 0) =>
          c_usage.reserved
            = mk_last.pre_reserved
              + mk_prev.sectors * mk_prev.key.nr_replicas

\* a reservation of 5 replicas marked in the transaction and applied: the
\* last slot and the total received 5 times its sectors
C30_Witness ==
    /\ mk_last.op = "apply"
    /\ mk_prev.op = "reservation"
    /\ mk_prev.path = "trans"
    /\ mk_prev.key.nr_replicas = 5
    /\ mk_prev.sectors = TransSectors
    /\ mk_last.pre_reserved = 0
    /\ c_usage.reserved = 5 * TransSectors
    /\ c_usage.persistent_reserved[BCH_REPLICAS_MAX - 1] = 5 * TransSectors
    /\ \A i \in 0..(BCH_REPLICAS_MAX - 2) :
          c_usage.persistent_reserved[i] = 0

(***************************************************************************)
(* SpecGcStripe: stripe keys marked in the view of the GC scan and in one  *)
(* transaction.  gc_view holds the marks of buckets[1], the stripe         *)
(* back-reference g->stripe of each of those buckets, stripes[1] and the   *)
(* usage of the scan.  The scan starts from buckets without a stripe,      *)
(* empty or with user data in the bucket of device 0, the bucket of device *)
(* 1 at generation 1 or 2, and a replicas table with or without the entry  *)
(* of the stripe.  The calls of bch2_stripes_heap_update are not carried   *)
(* in this view.  The stripes btree holds stripe 1, whose blocks are in    *)
(* the live buckets of both devices; the back-reference of both is 1.      *)
(* Index 0 is no stripe: a back-reference of 0 is a bucket without one.    *)
(***************************************************************************)
MaxGcOps == 3

EINVAL == -22

\* the data blocks in the bucket of device 0, the parity blocks in that of
\* device 1
GcStripeDevs ==
    [i \in 1..StripeNrBlocks |-> IF i <= StripeNrBlocks - 2 THEN 0 ELSE 1]

\* a stripe key with the generations of its pointers
GcStripeKey(pos, gens, blockcount) ==
    [type |-> KEY_TYPE_stripe, pos |-> pos, sectors |-> StripeSectors,
     nr_blocks |-> StripeNrBlocks, nr_redundant |-> 2,
     devs |-> GcStripeDevs, gens |-> gens,
     blockcounts |-> [i \in 1..StripeNrBlocks |-> blockcount]]

\* s->ptrs + ptr_idx
stripe_key_ptr(k, ptr_idx) ==
    [dev |-> k.devs[ptr_idx + 1], gen |-> k.gens[ptr_idx + 1],
     cached |-> FALSE]

\* g->stripe && g->stripe != k.k->p.offset
stripe_claimed_by_other(g_stripe, offset) ==
    g_stripe # 0 /\ g_stripe # offset

\* mark_stripe_bucket of block ptr_idx of stripe key k: [ret, S]
mark_stripe_bucket(S, k, ptr_idx, journal_seq) ==
    LET ptr == stripe_key_ptr(k, ptr_idx)
        parity == ptr_idx >= k.nr_blocks - k.nr_redundant
        old == S.buckets[ptr.dev]
        ret == check_bucket_ref(ptr, 0, BCH_DATA_none, old.gen,
                                old.data_type, old.dirty_sectors,
                                old.cached_sectors)
        n1 == IF parity
              THEN [old EXCEPT !.data_type = BCH_DATA_parity,
                               !.dirty_sectors = k.sectors]
              ELSE old
        new == IF journal_seq # 0
               THEN [n1 EXCEPT !.journal_seq_valid = 1,
                               !.journal_seq = journal_seq]
               ELSE n1
    IN  IF stripe_claimed_by_other(S.g_stripe[ptr.dev].stripe, k.pos)
        THEN [ret |-> EINVAL, S |-> S]
        ELSE IF ret # 0 THEN [ret |-> ret, S |-> S]
        ELSE [ret |-> 0,
              S |-> bch2_dev_usage_update(
                        [S EXCEPT
                           !.buckets[ptr.dev] = new,
                           !.g_stripe[ptr.dev] =
                               [stripe |-> k.pos,
                                stripe_redundancy |-> k.nr_redundant]],
                        ptr.dev, old, new)]

\* the loop of bch2_mark_stripe over blocks i .. nr_blocks - 1
RECURSIVE GcMarkStripeBuckets(_, _, _, _)
GcMarkStripeBuckets(S, new, i, journal_seq) ==
    IF i >= new.nr_blocks THEN [ret |-> 0, S |-> S]
    ELSE
      LET Step(r) == IF r.ret # 0 THEN r
                     ELSE GcMarkStripeBuckets(r.S, new, i + 1, journal_seq)
      IN  TheOne({ Step(r) :
                     r \in {mark_stripe_bucket(S, new, i, journal_seq)} })

\* the block counts of the key kept in the view of the scan
gc_block_sectors_kept(block_sectors) == block_sectors

\* memset(m->block_sectors, 0, sizeof(m->block_sectors))
gc_block_sectors(block_sectors) == [i \in DOMAIN block_sectors |-> 0]

\* bch2_mark_stripe with BTREE_TRIGGER_GC, new a stripe key: [ret, bug, S]
bch2_mark_stripe_gc(S, old, new, journal_seq) ==
    LET idx == new.pos
        m == S.stripes[idx]
        bs == [i \in DOMAIN m.block_sectors |->
                  IF i < new.nr_blocks THEN new.blockcounts[i + 1]
                  ELSE m.block_sectors[i]]
        m2 == [alive |-> TRUE, sectors |-> new.sectors,
               nr_blocks |-> new.nr_blocks,
               nr_redundant |-> new.nr_redundant,
               blocks_nonempty |-> 0,
               block_sectors |-> gc_block_sectors(bs),
               r |-> stripe_to_replicas(new)]
        Credit(r) ==
            IF r.ret # 0 THEN [ret |-> r.ret, bug |-> FALSE, S |-> r.S]
            ELSE [ret |-> 0, bug |-> FALSE,
                  S |-> update_replicas(r.S, m2.r,
                                        m2.sectors * m2.nr_redundant)]
    IN  IF old.type = KEY_TYPE_stripe
        THEN [ret |-> 0, bug |-> TRUE, S |-> S]
        ELSE IF idx \notin DOMAIN S.stripes
        THEN [ret |-> -1, bug |-> FALSE, S |-> S]
        ELSE TheOne({ Credit(r) :
                        r \in {GcMarkStripeBuckets(
                                   [S EXCEPT !.stripes[idx] = m2],
                                   new, 0, journal_seq)} })

\* the entry of the stripe keys in the replicas table
StripeParityEntry ==
    ReplicasEntry(BCH_DATA_parity, StripeNrBlocks - 2, {0, 1})

GcStartStates ==
    { [buckets |-> [d \in Devs |->
                      IF d = 0 THEN b0
                      ELSE BucketMark(gen1, BCH_DATA_none, 0, 0, 0, 0)],
       g_stripe |-> [d \in Devs |-> [stripe |-> 0, stripe_redundancy |-> 0]],
       dev_usage |-> [d \in Devs |-> DevUsageZero],
       c_usage |-> [MarkUsageZero EXCEPT !.replicas = [e \in tbl |-> 0]],
       stripes |-> [i \in {1, 2} |-> StripeZero]] :
        b0 \in {BucketMark(1, BCH_DATA_none, 0, 0, 0, 0),
                BucketMark(1, BCH_DATA_user, TransSectors, 0, 0, 0)},
        gen1 \in {1, 2},
        tbl \in {ReplicasEntries \cup {StripeUserEntry, StripeParityEntry},
                 ReplicasEntries \cup {StripeUserEntry}} }

\* a stripe key whose block 0 moved to the bucket of device 1 and whose
\* other blocks stay where FullStripeKey has them
MovedStripeKey(pos) ==
    [FullStripeKey(pos) EXCEPT !.devs[1] = 1]

\* the live back-references: both buckets belong to stripe 1
LiveStripeRefs == [d \in Devs |-> [stripe |-> 1, stripe_redundancy |-> 2]]

StripeLiveView ==
    [buckets |-> buckets, btrees |-> btrees, g_stripe |-> LiveStripeRefs]

GcStripeInit ==
    /\ res_call = <<>>
    /\ buckets = TransLive.buckets
    /\ dev_usage = TransLive.dev_usage
    /\ c_usage = TransLive.c_usage
    /\ stripes = TransLive.stripes
    /\ btrees = [b \in {BTREE_ID_EC} |->
                   [i \in {1, 2, 3} |->
                      IF i = 1 THEN FullStripeKey(1) ELSE DeletedAt(i)]]
    /\ trans_updates = <<>>
    /\ fs_usage_deltas = NoDeltaList
    /\ mk_sum = [dirty |-> 0, cached |-> 0]
    /\ btree_keys = {}
    /\ mk_nops = 0
    /\ mk_last = NoCall
    /\ mk_prev = NoCall
    /\ gc_view \in GcStartStates

\* the stripe keys the scan finds: stored block counts empty or full
GcStripeKeys ==
    { GcStripeKey(pos, [i \in 1..StripeNrBlocks |-> 1], n) :
        pos \in {1, 2, 3}, n \in {0, StripeSectors} }

\* bch2_mark_key of a stripe key by the scan
GcMarkStripe(old, new, journal_seq) ==
    /\ mk_nops < MaxGcOps
    /\ \E r \in {bch2_mark_stripe_gc(gc_view, old, new, journal_seq)} :
          /\ gc_view' = r.S
          /\ mk_last' = [op |-> "gc_stripe", old |-> old, new |-> new,
                         journal_seq |-> journal_seq,
                         ret |-> r.ret, bug |-> r.bug, pre |-> gc_view]
    /\ mk_nops' = mk_nops + 1
    /\ mk_prev' = mk_last
    /\ UNCHANGED <<buckets, dev_usage, c_usage, btree_keys, mk_sum,
                   ecVars, casVars, resVars, foldVars, rszVars,
                   callVars>>

\* bch2_mark_key of an extent with an erasure coded pointer by the scan
GcMarkEcExtent(k) ==
    /\ mk_nops < MaxGcOps
    /\ \E r \in {bch2_mark_key(
                     [f \in DOMAIN gc_view \cup {"heap_updates", "heap_dels"}
                        |-> IF f \in DOMAIN gc_view THEN gc_view[f] ELSE 0],
                     k, 0, k.size, 0, {BTREE_TRIGGER_GC})} :
          /\ gc_view' = [f \in DOMAIN gc_view |-> r.S[f]]
          /\ mk_last' = [op |-> "gc_extent", old |-> DeletedKey, new |-> k,
                         journal_seq |-> 0,
                         ret |-> r.ret, bug |-> FALSE, pre |-> gc_view]
    /\ mk_nops' = mk_nops + 1
    /\ mk_prev' = mk_last
    /\ UNCHANGED <<buckets, dev_usage, c_usage, btree_keys, mk_sum,
                   ecVars, casVars, resVars, foldVars, rszVars,
                   callVars>>

\* bch2_trans_mark_update of the transaction's update of the stripes btree
\* at pos, which holds old; the transaction updates a position once
TransMarkStripeUpdate(pos, new) ==
    /\ mk_nops < MaxGcOps
    /\ <<BTREE_ID_EC, pos>> \notin DOMAIN trans_updates
    /\ new # btrees[BTREE_ID_EC][pos]
    /\ LET old == btrees[BTREE_ID_EC][pos]
       IN  \E r \in {bch2_trans_mark_update_slot(
                         bch2_trans_update(Trans, BTREE_ID_EC, pos, new),
                         StripeLiveView, old, new, TRUE)} :
              /\ trans_updates' = r.T.updates
              /\ fs_usage_deltas' = r.T.deltas
              /\ mk_last' = [op |-> "trans_stripe", old |-> old, new |-> new,
                             ret |-> r.ret, bug |-> r.bug,
                             pre_updates |-> trans_updates]
    /\ mk_nops' = mk_nops + 1
    /\ mk_prev' = mk_last
    /\ UNCHANGED <<buckets, dev_usage, c_usage, btree_keys, mk_sum,
                   stripes, btrees, ecOthers>>

GcStripeNext ==
    \/ \E new \in GcStripeKeys : GcMarkStripe(DeletedAt(new.pos), new, 0)
    \/ \E new \in {k \in GcStripeKeys : k.pos = 1} :
          \/ GcMarkStripe(DeletedAt(1), new, 1)
          \/ GcMarkStripe(new, new, 0)
    \/ \E idx \in {1, 2} :
          GcMarkEcExtent(Key(KEY_TYPE_extent, 0, TransSectors,
                             <<EcPtr(0, 1, idx, 0)>>))
    \/ \E pos \in {1, 2} :
          \E new \in {DeletedAt(pos), FullStripeKey(pos),
                      MovedStripeKey(pos)} :
             TransMarkStripeUpdate(pos, new)

\* bch2_mark_stripe returned 0 in the last call of the scan
GcStripeMarked ==
    /\ mk_last.op = "gc_stripe"
    /\ ~mk_last.bug
    /\ mk_last.ret = 0

\* the parity blocks of stripe key k
ParityBlocks(k) == (k.nr_blocks - k.nr_redundant)..(k.nr_blocks - 1)

\* C32: after bch2_mark_stripe returns 0 with the GC flag, every
\* block_sectors entry of the scan's stripe is 0 and blocks_nonempty is 0
\* whatever the key stores, the bucket of every parity block has data type
\* parity and the stripe's sectors as dirty_sectors, and the stripe's entry of
\* the replicas table, if the table has it, rose by sectors * nr_redundant.
C32_GcStripeCountsRebuilt ==
    GcStripeMarked =>
        LET k == mk_last.new
            m == gc_view.stripes[k.pos]
        IN  /\ m.alive
            /\ \A i \in DOMAIN m.block_sectors : m.block_sectors[i] = 0
            /\ m.blocks_nonempty = 0
            /\ \A i \in ParityBlocks(k) :
                  /\ gc_view.buckets[k.devs[i + 1]].data_type
                       = BCH_DATA_parity
                  /\ gc_view.buckets[k.devs[i + 1]].dirty_sectors
                       = StripeSectors
            /\ StripeParityEntry \in DOMAIN mk_last.pre.c_usage.replicas
                 => gc_view.c_usage.replicas[StripeParityEntry]
                      = mk_last.pre.c_usage.replicas[StripeParityEntry]
                        + StripeSectors * 2

\* a stripe key that stores full block counts is marked by the scan a second
\* time, after a pointer mark had rebuilt the count of block 0
C32_Witness ==
    /\ GcStripeMarked
    /\ mk_last.new.blockcounts[1] = StripeSectors
    /\ mk_last.pre.stripes[mk_last.new.pos].block_sectors[0] = TransSectors
    /\ mk_last.pre.stripes[mk_last.new.pos].blocks_nonempty = 1
    /\ gc_view.stripes[mk_last.new.pos].block_sectors[0] = 0
    /\ gc_view.stripes[mk_last.new.pos].blocks_nonempty = 0
    /\ gc_view.buckets[1].data_type = BCH_DATA_parity
    /\ gc_view.buckets[1].dirty_sectors = StripeSectors
    /\ StripeParityEntry \in DOMAIN gc_view.c_usage.replicas
    /\ gc_view.c_usage.replicas[StripeParityEntry] = 2 * StripeSectors * 2

\* the devices of the pointers of stripe key k
KeyDevs(k) == { k.devs[i] : i \in 1..Len(k.devs) }

\* the stripe back-reference of the bucket of device d as the transaction
\* with pending updates upd has it
StagedRef(upd, d) ==
    IF <<BTREE_ID_ALLOC, d>> \in DOMAIN upd
    THEN upd[<<BTREE_ID_ALLOC, d>>].stripe
    ELSE LiveStripeRefs[d].stripe

\* the last two calls marked, in the transaction, the updates that write
\* stripe keys at two indices, and both returned 0
TwoStripesMarked ==
    /\ mk_prev.op = "trans_stripe" /\ mk_last.op = "trans_stripe"
    /\ ~mk_prev.bug /\ ~mk_last.bug
    /\ mk_prev.ret = 0 /\ mk_last.ret = 0
    /\ mk_prev.new.type = KEY_TYPE_stripe
    /\ mk_last.new.type = KEY_TYPE_stripe

\* the last call marked stripe key new of index S in the scan's view (gc) or
\* in the transaction; b and a are a bucket's back-reference before and after
GcRefRule(d) ==
    LET S == mk_last.new.pos
        b == mk_last.pre.g_stripe[d].stripe
        a == gc_view.g_stripe[d].stripe
    IN  /\ (d \in KeyDevs(mk_last.new) /\ b \notin {0, S})
             => (mk_last.ret < 0 /\ a = b)
        /\ a # b => (b = 0 /\ a = S)

TransRefRule(d, zero_allowed) ==
    LET S == mk_last.new.pos
        b == StagedRef(mk_last.pre_updates, d)
        a == StagedRef(trans_updates, d)
    IN  /\ ( /\ mk_last.new.type = KEY_TYPE_stripe
             /\ d \in KeyDevs(mk_last.new)
             /\ b \notin {0, S} )
             => (mk_last.ret < 0 /\ a = b)
        /\ a # b => \/ (mk_last.new.type = KEY_TYPE_stripe /\ b = 0 /\ a = S)
                    \/ (zero_allowed /\ a = 0)

\* C33: marking stripe S on a bucket whose back-reference is another stripe
\* fails with an error and leaves the back-reference as it was, in the scan's
\* view and in the transaction; a back-reference changes only from 0 to S, or
\* to 0 when the stripe is deleted; and no bucket is referenced by the
\* pointers of two stripe keys.
C33_BucketNeverClaimedTwice ==
    /\ (mk_last.op = "gc_stripe" /\ ~mk_last.bug)
         => \A d \in Devs : GcRefRule(d)
    /\ (mk_last.op = "trans_stripe" /\ ~mk_last.bug)
         => \A d \in Devs :
               TransRefRule(d, mk_last.new.type # KEY_TYPE_stripe)
    /\ TwoStripesMarked
         => KeyDevs(mk_prev.new) \cap KeyDevs(mk_last.new) = {}

\* the last call of the transaction marked an extent with one plain pointer
\* and bch2_trans_mark_pointer staged the record of its bucket
TransPtrStaged(m) ==
    /\ m.op = "trans_mark"
    /\ ~m.bug
    /\ m.ret = 0
    /\ MarkedKey(m).type = KEY_TYPE_extent
    /\ ~MarkedPtr(m).has_ec
    /\ ~(MarkedPtr(m).cached /\ MarkedPtr(m).gen # m.pre_live.buckets[0].gen)

\* the sector counts the call started from: the pending update of the bucket
\* if the transaction has one, else the mark of the live bucket
StagedBase(m, dev) ==
    IF <<BTREE_ID_ALLOC, dev>> \in DOMAIN m.pre_updates
    THEN m.pre_updates[<<BTREE_ID_ALLOC, dev>>]
    ELSE m.pre_live.buckets[dev]

\* C34: a transactional pointer mark builds the bucket's record from the
\* pending update of the bucket when the transaction has one and from the
\* live mark only when it has none, and stages the record with the pointer's
\* delta added, so two marks into one bucket leave a pending record with the
\* sum of both deltas.
C34_StagedRecordsAccumulate ==
    TransPtrStaged(mk_last) =>
        LET p == MarkedPtr(mk_last)
            base == StagedBase(mk_last, p.dev)
            u == trans_updates[<<BTREE_ID_ALLOC, p.dev>>]
        IN  /\ u.dirty_sectors
                 = base.dirty_sectors
                   + (IF p.cached THEN 0 ELSE mk_last.sectors)
            /\ u.cached_sectors
                 = base.cached_sectors
                   + (IF p.cached THEN mk_last.sectors ELSE 0)
            /\ u.gen = base.gen

\* two extents with a dirty pointer into the bucket of device 0 are inserted
\* in one transaction: the pending record holds the live count and both deltas
C34_Witness ==
    /\ TransPtrStaged(mk_prev)
    /\ TransPtrStaged(mk_last)
    /\ ~MarkedPtr(mk_prev).cached /\ ~MarkedPtr(mk_last).cached
    /\ mk_prev.sectors = TransSectors /\ mk_last.sectors = TransSectors
    /\ mk_prev.pre_updates = <<>>
    /\ <<BTREE_ID_ALLOC, 0>> \in DOMAIN mk_last.pre_updates
    /\ buckets[0].dirty_sectors = StripeSectors
    /\ trans_updates[<<BTREE_ID_ALLOC, 0>>].dirty_sectors
         = StripeSectors + 2 * TransSectors

(***************************************************************************)
(* SpecResRace: bch2_disk_reservation_add on every core at once, step by   *)
(* step.  A core runs one call at a time (preemption is disabled); the     *)
(* calls hold mark_lock shared, which does not exclude one another; only   *)
(* the part after label recalculate is under sectors_available_lock.  Each *)
(* += and -= on a per-core cache is taken as one indivisible step.  The    *)
(* filesystem starts with the global counter just recalculated from its    *)
(* free space and empty caches.  No call carries the NOFAIL flag.          *)
(***************************************************************************)
MaxRaceCalls == 3

RaceRequests == {500, 1500}

NoResCall == [pc |-> "idle", sectors |-> 0, old |-> 0, get |-> 0]

\* the sectors available as the calls start
RaceAvailable == avail_factor(fs_usage_read_short(
                                  [UsageZero EXCEPT !.data = 1000]).free)

ResRaceInit ==
    /\ c_sectors_available = RaceAvailable
    /\ pcpu_sectors_available = [cpu \in Cpus |-> 0]
    /\ usage_base = [UsageZero EXCEPT !.data = 1000]
    /\ usage = [i \in UsageIdx |-> [cpu \in Cpus |-> UsageZero]]
    /\ disk_res = [r \in Reservations |-> 0]
    /\ r_nops = 0
    /\ r_last = NoCall
    /\ r_grant = NoCall
    /\ res_call = [cpu \in Cpus |-> NoResCall]
    /\ gc_view = <<>>

RaceStep(cpu, rec) ==
    /\ res_call' = [res_call EXCEPT ![cpu] = rec]
    /\ UNCHANGED <<usage_base, r_grant, casVars, foldVars, markVars, ecVars,
                   rszVars, gc_view>>

\* line 2235: if (sectors <= pcpu->sectors_available) goto out
RaceStart(cpu, sectors) ==
    /\ r_nops < MaxRaceCalls
    /\ res_call[cpu].pc = "idle"
    /\ r_nops' = r_nops + 1
    /\ RaceStep(cpu, [pc |-> IF sectors <= pcpu_sectors_available[cpu]
                             THEN "out" ELSE "read",
                      sectors |-> sectors, old |-> 0, get |-> 0])
    /\ UNCHANGED <<c_sectors_available, pcpu_sectors_available, usage,
                   disk_res, r_last>>

\* lines 2238-2246: v = atomic64_read(), or the value a failed cmpxchg
\* returned; get = min(sectors + SECTORS_CACHE, old)
RaceRead(cpu) ==
    /\ res_call[cpu].pc = "read"
    /\ \E get \in {reservation_get(res_call[cpu].sectors,
                                   c_sectors_available)} :
          RaceStep(cpu, [res_call[cpu] EXCEPT
                           !.pc = IF get < res_call[cpu].sectors
                                  THEN "recalculate" ELSE "cmpxchg",
                           !.old = c_sectors_available,
                           !.get = get])
    /\ UNCHANGED <<c_sectors_available, pcpu_sectors_available, usage,
                   disk_res, r_nops, r_last>>

\* lines 2247-2248: atomic64_cmpxchg(&c->sectors_available, old, old - get)
RaceCmpxchg(cpu) ==
    /\ res_call[cpu].pc = "cmpxchg"
    /\ IF c_sectors_available = res_call[cpu].old
       THEN /\ c_sectors_available' = res_call[cpu].old - res_call[cpu].get
            /\ RaceStep(cpu, [res_call[cpu] EXCEPT !.pc = "credit"])
       ELSE /\ UNCHANGED c_sectors_available
            /\ RaceStep(cpu, [res_call[cpu] EXCEPT !.pc = "read"])
    /\ UNCHANGED <<pcpu_sectors_available, usage, disk_res, r_nops, r_last>>

\* line 2250: pcpu->sectors_available += get
RaceCredit(cpu) ==
    /\ res_call[cpu].pc = "credit"
    /\ pcpu_sectors_available' =
           [pcpu_sectors_available EXCEPT ![cpu] = @ + res_call[cpu].get]
    /\ RaceStep(cpu, [res_call[cpu] EXCEPT !.pc = "out"])
    /\ UNCHANGED <<c_sectors_available, usage, disk_res, r_nops, r_last>>

\* lines 2252-2259: out
RaceOut(cpu, r) ==
    /\ res_call[cpu].pc = "out"
    /\ pcpu_sectors_available' =
           [pcpu_sectors_available EXCEPT
              ![cpu] = pcpu_debit(@, res_call[cpu].sectors)]
    /\ usage' = usage_add_online_reserved(usage, 0, cpu,
                                          res_call[cpu].sectors)
    /\ disk_res' = [disk_res EXCEPT ![r] = @ + res_call[cpu].sectors]
    /\ r_last' = [op |-> "add", res |-> r, cpu |-> cpu,
                  sectors |-> res_call[cpu].sectors, flags |-> {},
                  slow |-> FALSE, ret |-> 0, pre |-> ResPre(r, cpu)]
    /\ RaceStep(cpu, NoResCall)
    /\ UNCHANGED <<c_sectors_available, r_nops>>

\* lines 2262-2264: mutex_lock(&c->sectors_available_lock), then
\* percpu_u64_set(&c->pcpu->sectors_available, 0)
RaceLockAndZero(cpu) ==
    /\ res_call[cpu].pc = "recalculate"
    /\ \A other \in Cpus : res_call[other].pc # "locked"
    /\ pcpu_sectors_available' = [c \in Cpus |-> 0]
    /\ RaceStep(cpu, [res_call[cpu] EXCEPT !.pc = "locked"])
    /\ UNCHANGED <<c_sectors_available, usage, disk_res, r_nops, r_last>>

\* lines 2265-2282: the recalculation, the grant or the refusal, the unlock
RaceRecalculate(cpu, r) ==
    /\ res_call[cpu].pc = "locked"
    /\ LET sectors == res_call[cpu].sectors
           sectors_available == avail_factor(__bch2_fs_usage_read_short.free)
           granted == recalculate_grants(sectors, sectors_available, {})
       IN  /\ IF granted
              THEN /\ c_sectors_available' =
                          Max(0, sectors_available - sectors)
                   /\ usage' = usage_add_online_reserved(usage, 0, cpu,
                                                         sectors)
                   /\ disk_res' = [disk_res EXCEPT ![r] = @ + sectors]
              ELSE /\ c_sectors_available' = sectors_available
                   /\ UNCHANGED <<usage, disk_res>>
           /\ r_last' = [op |-> "add", res |-> r, cpu |-> cpu,
                         sectors |-> sectors, flags |-> {}, slow |-> TRUE,
                         ret |-> IF granted THEN 0 ELSE ENOSPC,
                         pre |-> ResPre(r, cpu)]
    /\ RaceStep(cpu, NoResCall)
    /\ UNCHANGED <<pcpu_sectors_available, r_nops>>

ResRaceNext ==
    \/ \E cpu \in Cpus, sectors \in RaceRequests : RaceStart(cpu, sectors)
    \/ \E cpu \in Cpus : RaceRead(cpu)
    \/ \E cpu \in Cpus : RaceCmpxchg(cpu)
    \/ \E cpu \in Cpus : RaceCredit(cpu)
    \/ \E cpu \in Cpus : RaceOut(cpu, "res1")
    \/ \E cpu \in Cpus : RaceLockAndZero(cpu)
    \/ \E cpu \in Cpus : RaceRecalculate(cpu, "res1")

\* C36: under every interleaving of the calls no core's cache goes below
\* zero, and the sectors granted in total stay within the sectors that were
\* available, global counter plus caches, when the calls started.
C36_NoUnderflowNoOvergrant ==
    /\ \A cpu \in Cpus : pcpu_sectors_available[cpu] >= 0
    /\ SumRes(Reservations) <= RaceAvailable

(***************************************************************************)
(* SpecDevSb: bch2_trans_mark_metadata_bucket and __bch2_trans_mark_dev_sb *)
(* on one device of three buckets.  buckets[b] is the live mark of bucket  *)
(* b of the device, the alloc key of bucket b is at position b.  Each      *)
(* __bch2_trans_do commits outside this file; its update stays visible to  *)
(* the calls after it as the key of the bucket.                            *)
(***************************************************************************)
MaxSbOps == 3

BCH_SB_SECTOR == 8

SbBuckets == {0, 1, 2}

\* sb_offset[], and 1 << sb_max_size_bits; the second layout has a backup
\* superblock that lies across the end of bucket 0
SbLayouts ==
    { [sb_offset |-> <<BCH_SB_SECTOR>>, sb_max_size |-> 2048],
      [sb_offset |-> <<BCH_SB_SECTOR, BucketSize - 1024>>,
       sb_max_size |-> 2048] }

\* ca->journal.buckets[]
SbJournals == {<<>>, <<2>>}

SbLive ==
    [buckets |-> buckets, btrees |-> btrees,
     g_stripe |-> [b \in SbBuckets |-> [stripe |-> 0,
                                        stripe_redundancy |-> 0]]]

\* __bch2_trans_mark_metadata_bucket: [ret, T]
__bch2_trans_mark_metadata_bucket(T, L, b, type, sectors) ==
    LET u == bch2_trans_start_alloc_update(T, L, b)
    IN  IF u.data_type # BCH_DATA_none /\ u.data_type # type
        THEN [ret |-> EIO, T |-> T]
        ELSE IF u.dirty_sectors + sectors > BucketSize
        THEN [ret |-> EIO, T |-> T]
        ELSE IF u.data_type = type /\ u.dirty_sectors = sectors
        THEN [ret |-> 0, T |-> T]
        ELSE [ret |-> 0,
              T |-> bch2_trans_update(T, BTREE_ID_ALLOC, b,
                                      [u EXCEPT !.data_type = type,
                                                !.dirty_sectors = sectors])]

\* bch2_trans_mark_metadata_bucket(trans, res, ca, b, type, sectors)
bch2_trans_mark_metadata_bucket(T, L, b, type, sectors) ==
    __bch2_trans_mark_metadata_bucket(T, L, b, BCH_DATA_journal, BucketSize)

\* bch2_trans_mark_metadata_sectors from start on: the set of outcomes
\* [ret, T, bucket, bucket_sectors].  ret_set says whether the local ret has
\* been assigned; the loop condition !ret && start < end reads it, and while
\* it is unassigned the loop may end after any iteration.
RECURSIVE bch2_trans_mark_metadata_sectors(_, _, _, _, _, _, _, _)
bch2_trans_mark_metadata_sectors(T, L, start, end, type, bucket, bucket_sectors, ret_set) ==
    LET b == start \div BucketSize
        sectors == Min((b + 1) * BucketSize, end) - start
        flush == b # bucket /\ bucket_sectors # 0
        m == IF flush
             THEN bch2_trans_mark_metadata_bucket(T, L, bucket, type,
                                                  bucket_sectors)
             ELSE [ret |-> 0, T |-> T]
        acc == (IF b # bucket THEN 0 ELSE bucket_sectors) + sectors
        done == {[ret |-> 0, T |-> m.T, bucket |-> b,
                  bucket_sectors |-> acc]}
    IN  IF m.ret # 0
        THEN {[ret |-> m.ret, T |-> m.T, bucket |-> bucket,
               bucket_sectors |-> bucket_sectors]}
        ELSE IF start + sectors >= end THEN done
        ELSE (IF ret_set \/ flush THEN {} ELSE done)
               \cup bch2_trans_mark_metadata_sectors(
                        m.T, L, start + sectors, end, type, b, acc,
                        ret_set \/ flush)

\* the superblock loop of __bch2_trans_mark_dev_sb from superblock i on
RECURSIVE DevSbSuperblocks(_, _, _, _, _)
DevSbSuperblocks(T, L, layout, i, loc) ==
    IF i > Len(layout.sb_offset)
    THEN {[ret |-> 0, T |-> T, bucket |-> loc.bucket,
           bucket_sectors |-> loc.bucket_sectors]}
    ELSE LET offset == layout.sb_offset[i]
             first == IF offset = BCH_SB_SECTOR
                      THEN bch2_trans_mark_metadata_sectors(
                               T, L, 0, BCH_SB_SECTOR, BCH_DATA_sb,
                               loc.bucket, loc.bucket_sectors, FALSE)
                      ELSE {[ret |-> 0, T |-> T, bucket |-> loc.bucket,
                             bucket_sectors |-> loc.bucket_sectors]}
             second == UNION { IF a.ret # 0 THEN {a}
                               ELSE bch2_trans_mark_metadata_sectors(
                                        a.T, L, offset,
                                        offset + layout.sb_max_size,
                                        BCH_DATA_sb, a.bucket,
                                        a.bucket_sectors, FALSE) :
                               a \in first }
         IN  UNION { IF a.ret # 0 THEN {a}
                     ELSE DevSbSuperblocks(a.T, L, layout, i + 1, a) :
                     a \in second }

\* the journal loop: [ret, T]
RECURSIVE DevSbJournal(_, _, _, _)
DevSbJournal(T, L, journal, i) ==
    IF i > Len(journal) THEN [ret |-> 0, T |-> T]
    ELSE LET m == bch2_trans_mark_metadata_bucket(T, L, journal[i],
                                                  BCH_DATA_journal,
                                                  BucketSize)
         IN  IF m.ret # 0 THEN m
             ELSE DevSbJournal(m.T, L, journal, i + 1)

\* __bch2_trans_mark_dev_sb: the set of outcomes [ret, T]
__bch2_trans_mark_dev_sb(T, L, layout, journal) ==
    { IF a.ret # 0 THEN [ret |-> a.ret, T |-> a.T]
      ELSE LET m == IF a.bucket_sectors # 0
                    THEN bch2_trans_mark_metadata_bucket(
                             a.T, L, a.bucket, BCH_DATA_sb, a.bucket_sectors)
                    ELSE [ret |-> 0, T |-> a.T]
           IN  IF m.ret # 0 THEN m
               ELSE DevSbJournal(m.T, L, journal, 1) :
      a \in DevSbSuperblocks(T, L, layout, 1,
                             [bucket |-> 0, bucket_sectors |-> 0]) }

\* the device is new, or its bucket 0 already holds superblock data
DevSbInit ==
    /\ \E m \in {BucketMark(1, BCH_DATA_none, 0, 0, 0, 0),
                 BucketMark(1, BCH_DATA_sb, 2056, 0, 0, 0)} :
          buckets = [b \in SbBuckets |->
                       IF b = 0 THEN m
                       ELSE BucketMark(1, BCH_DATA_none, 0, 0, 0, 0)]
    /\ dev_usage = EmptyMarkState.dev_usage
    /\ c_usage = EmptyMarkState.c_usage
    /\ stripes = <<>>
    /\ btrees = <<>>
    /\ trans_updates = <<>>
    /\ fs_usage_deltas = NoDeltaList
    /\ mk_sum = [dirty |-> 0, cached |-> 0]
    /\ btree_keys = {}
    /\ mk_nops = 0
    /\ mk_last = NoCall
    /\ mk_prev = NoCall

DevSbStep(T, call) ==
    /\ trans_updates' = T.updates
    /\ mk_last' = call
    /\ mk_nops' = mk_nops + 1
    /\ UNCHANGED <<buckets, dev_usage, c_usage, btree_keys, mk_sum, mk_prev,
                   stripes, btrees, fs_usage_deltas, ecOthers>>

TransMarkMetadataBucket(b, type, sectors) ==
    /\ mk_nops < MaxSbOps
    /\ \E r \in {bch2_trans_mark_metadata_bucket(Trans, SbLive, b, type,
                                                 sectors)} :
          DevSbStep(r.T, [op |-> "metadata_bucket", b |-> b, type |-> type,
                          sectors |-> sectors, ret |-> r.ret])

TransMarkDevSb(layout, journal) ==
    /\ mk_nops < MaxSbOps
    /\ \E r \in __bch2_trans_mark_dev_sb(Trans, SbLive, layout, journal) :
          DevSbStep(r.T, [op |-> "dev_sb", layout |-> layout,
                          journal |-> journal, ret |-> r.ret])

DevSbNext ==
    \/ \E b \in SbBuckets, type \in {BCH_DATA_sb, BCH_DATA_journal},
          sectors \in {BCH_SB_SECTOR, 2056, BucketSize} :
          TransMarkMetadataBucket(b, type, sectors)
    \/ \E layout \in SbLayouts, journal \in SbJournals :
          TransMarkDevSb(layout, journal)

\* the sectors of the layout's superblocks that lie in bucket b
RangeIn(start, end, b) ==
    Max(0, Min(end, (b + 1) * BucketSize) - Max(start, b * BucketSize))

SbSectorsIn(layout, b) ==
    SumOver(DOMAIN layout.sb_offset,
            [i \in DOMAIN layout.sb_offset |->
               RangeIn(layout.sb_offset[i],
                       layout.sb_offset[i] + layout.sb_max_size, b)
                 + (IF layout.sb_offset[i] = BCH_SB_SECTOR
                    THEN RangeIn(0, BCH_SB_SECTOR, b) ELSE 0)])

\* the allocation record of bucket b as the transaction has it
StagedRecord(b) == bch2_trans_start_alloc_update(Trans, SbLive, b)

RecordIs(b, type, sectors) ==
    /\ StagedRecord(b).data_type = type
    /\ StagedRecord(b).dirty_sectors = sectors

\* C39: after a bch2_trans_mark_metadata_bucket(b, type, sectors) that
\* returned 0 the allocation record of bucket b has data type type and
\* dirty-sector count sectors; after a __bch2_trans_mark_dev_sb that
\* returned 0 every bucket with superblock sectors is superblock data with
\* the number of superblock sectors that lie in it, and every journal bucket
\* is journal data with a full bucket of sectors.
C39_StagedRecordIsWhatCallerGave ==
    /\ (mk_last.op = "metadata_bucket" /\ mk_last.ret = 0)
         => RecordIs(mk_last.b, mk_last.type, mk_last.sectors)
    /\ (mk_last.op = "dev_sb" /\ mk_last.ret = 0)
         => /\ \A b \in SbBuckets :
                  SbSectorsIn(mk_last.layout, b) > 0
                    => RecordIs(b, BCH_DATA_sb, SbSectorsIn(mk_last.layout, b))
            /\ \A i \in DOMAIN mk_last.journal :
                  RecordIs(mk_last.journal[i], BCH_DATA_journal, BucketSize)

(***************************************************************************)
(* SpecViews: bch2_mark_metadata_bucket and bch2_mark_alloc_bucket through *)
(* do_mark_fn.  The live view is buckets, dev_usage, c_usage and the       *)
(* owned_by_allocator bits f_owned; gc_view holds the same of the GC view  *)
(* and c->gc_pos.  Positions of the scan are numbered in scan order.       *)
(***************************************************************************)
MaxViewOps == 3

GcPositions == {1, 2}

\* gc_visited(c, pos): gc_pos_cmp(pos, c->gc_pos) <= 0
gc_visited(gc_pos, pos) == pos <= gc_pos

\* do_mark_fn with the live view alone, whatever the scan has visited
do_mark_fn_unvisited(r_live, r_gc, V, flags, visited) ==
    [ret |-> IF BTREE_TRIGGER_GC \in flags THEN r_gc.ret ELSE r_live.ret,
     live |-> IF BTREE_TRIGGER_GC \in flags THEN V.live ELSE r_live.S,
     gc |-> IF BTREE_TRIGGER_GC \in flags THEN r_gc.S ELSE V.gc]

\* do_mark_fn(fn, c, pos, flags, ...): r_live and r_gc are what fn(..., gc)
\* returns and leaves for gc = 0 and gc = 1, V the two views before the
\* call.  for (gc = 0; gc < 2 && !ret; gc++)
\*     if (!gc == !(flags & BTREE_TRIGGER_GC) || (gc && gc_visited(c, pos)))
\*         ret = fn(c, ..., gc);
do_mark_fn(r_live, r_gc, V, flags, visited) ==
    LET Selected(gc) ==
            \/ (gc = 0) = (BTREE_TRIGGER_GC \notin flags)
            \/ gc # 0 /\ visited
        ret0 == IF Selected(0) THEN r_live.ret ELSE 0
        run1 == ret0 = 0 /\ Selected(1)
    IN  [ret |-> IF run1 THEN r_gc.ret ELSE ret0,
         live |-> IF Selected(0) THEN r_live.S ELSE V.live,
         gc |-> IF run1 THEN r_gc.S ELSE V.gc]

\* __bch2_mark_alloc_bucket on one view: [ret, S]
__bch2_mark_alloc_bucket(S, b, owned_by_allocator) ==
    [ret |-> 0,
     S |-> [S EXCEPT !.owned = IF owned_by_allocator THEN @ \cup {b}
                               ELSE @ \ {b}]]

ViewsLive ==
    [buckets |-> buckets, dev_usage |-> dev_usage, c_usage |-> c_usage,
     owned |-> f_owned]

Views == [live |-> ViewsLive, gc |-> gc_view.view]

\* the scan stands before position 1, or has visited position 1
ViewsInit ==
    /\ buckets = EmptyMarkState.buckets
    /\ dev_usage = EmptyMarkState.dev_usage
    /\ c_usage = EmptyMarkState.c_usage
    /\ mk_sum = [dirty |-> 0, cached |-> 0]
    /\ btree_keys = {}
    /\ mk_nops = 0
    /\ mk_last = NoCall
    /\ mk_prev = NoCall
    /\ res_call = <<>>
    /\ \E pos \in {0, 1} :
          gc_view = [view |-> [buckets |-> EmptyMarkState.buckets,
                               dev_usage |-> EmptyMarkState.dev_usage,
                               c_usage |-> EmptyMarkState.c_usage,
                               owned |-> {}],
                     gc_pos |-> pos]

ViewsStep(r, call) ==
    /\ buckets' = r.live.buckets
    /\ dev_usage' = r.live.dev_usage
    /\ c_usage' = r.live.c_usage
    /\ f_owned' = r.live.owned
    /\ gc_view' = [gc_view EXCEPT !.view = r.gc]
    /\ mk_last' = [call EXCEPT !.ret = r.ret]
    /\ mk_prev' = mk_last
    /\ mk_nops' = mk_nops + 1
    /\ UNCHANGED <<btree_keys, mk_sum, f_seq, f_base, f_shard, f_true,
                   f_nmarks, foldProcVars, rdVars, casVars, resVars, ecVars,
                   rszVars, callVars>>

\* what the call's function does to one view
MarkFnOn(call, S) ==
    IF call.op = "metadata_bucket_at"
    THEN __bch2_mark_metadata_bucket(S, call.b, call.type, call.sectors)
    ELSE __bch2_mark_alloc_bucket(S, call.b, call.owned_by_allocator).S

ViewsCall(call) ==
    /\ mk_nops < MaxViewOps
    /\ ViewsStep(do_mark_fn([ret |-> 0, S |-> MarkFnOn(call, Views.live)],
                            [ret |-> 0, S |-> MarkFnOn(call, Views.gc)],
                            Views, call.flags,
                            gc_visited(gc_view.gc_pos, call.pos)),
                 call)

\* bch2_mark_metadata_bucket(c, ca, b, type, sectors, pos, flags), c != NULL
MarkMetadataBucketAt(b, type, sectors, pos, flags) ==
    /\ type \in {BCH_DATA_sb, BCH_DATA_journal}
    /\ ViewsCall([op |-> "metadata_bucket_at", b |-> b, type |-> type,
                  sectors |-> sectors, pos |-> pos, flags |-> flags,
                  ret |-> 0, pre |-> Views])

\* bch2_mark_alloc_bucket(c, ca, b, owned_by_allocator, pos, flags); a call
\* on the live view releases only a bucket that has the bit
MarkAllocBucketAt(b, owned_by_allocator, pos, flags) ==
    /\ BTREE_TRIGGER_GC \in flags \/ owned_by_allocator \/ b \in f_owned
    /\ ViewsCall([op |-> "alloc_bucket_at", b |-> b,
                  owned_by_allocator |-> owned_by_allocator, pos |-> pos,
                  flags |-> flags, ret |-> 0, pre |-> Views])

ViewsNext ==
    \/ \E b \in Devs, pos \in GcPositions,
          flags \in {{}, {BTREE_TRIGGER_GC}} :
          MarkMetadataBucketAt(b, BCH_DATA_sb, BCH_SB_SECTOR, pos, flags)
    \/ \E b \in Devs, o \in BOOLEAN, pos \in GcPositions,
          flags \in {{}, {BTREE_TRIGGER_GC}} :
          MarkAllocBucketAt(b, o, pos, flags)

ViewsCalled == mk_last.op \in {"metadata_bucket_at", "alloc_bucket_at"}

\* C40: a call without the GC flag leaves the live view as its function
\* makes it, and the GC view as its function makes it if the scan has
\* visited the call's position and untouched otherwise; a call with the GC
\* flag leaves the live view untouched and the GC view as its function
\* makes it.
C40_ViewSelection ==
    ViewsCalled =>
        LET flagged == BTREE_TRIGGER_GC \in mk_last.flags
            visited == mk_last.pos <= gc_view.gc_pos
        IN  /\ ViewsLive = IF flagged THEN mk_last.pre.live
                           ELSE MarkFnOn(mk_last, mk_last.pre.live)
            /\ gc_view.view = IF flagged \/ visited
                              THEN MarkFnOn(mk_last, mk_last.pre.gc)
                              ELSE mk_last.pre.gc

\* C40 witness: after a call with the GC flag that changed the GC view
\* alone, a call without the flag at a visited position changed both views,
\* each from its own earlier value
C40_Witness ==
    /\ mk_last.op = "metadata_bucket_at"
    /\ mk_last.flags = {}
    /\ mk_last.pos <= gc_view.gc_pos
    /\ mk_prev.op = "metadata_bucket_at"
    /\ BTREE_TRIGGER_GC \in mk_prev.flags
    /\ mk_prev.b = mk_last.b
    /\ mk_prev.pre.live = mk_last.pre.live
    /\ mk_prev.pre.gc # mk_last.pre.gc
    /\ buckets[mk_last.b].dirty_sectors = BCH_SB_SECTOR
    /\ gc_view.view.buckets[mk_last.b].dirty_sectors = 2 * BCH_SB_SECTOR

(***************************************************************************)
(* Specifications.                                                         *)
(***************************************************************************)
InitCas == CasInit /\ ResIdle /\ FoldIdle /\ MarkIdle /\ EcIdle /\ RszIdle /\ GcIdle
SpecCas == InitCas /\ [][CasNext]_vars

InitRes == ResInit /\ CasIdle /\ FoldIdle /\ MarkIdle /\ EcIdle /\ RszIdle /\ GcIdle
SpecRes == InitRes /\ [][ResNext]_vars

InitRead == ReadInit /\ CasIdle /\ ResIdle /\ MarkIdle /\ EcIdle /\ RszIdle /\ GcIdle
SpecRead == InitRead /\ [][ReadNext]_vars

InitFold == FoldInit /\ CasIdle /\ ResIdle /\ MarkIdle /\ EcIdle /\ RszIdle /\ GcIdle
SpecFold == InitFold /\ [][FoldNext]_vars

InitMark == MarkInit /\ CasIdle /\ ResIdle /\ FoldIdle /\ EcIdle /\ RszIdle /\ GcIdle
SpecMark == InitMark /\ [][MarkNext]_vars

InitBucket == MarkInit /\ CasIdle /\ ResIdle /\ FoldIdle /\ EcIdle /\ RszIdle /\ GcIdle
SpecBucket == InitBucket /\ [][BucketNext]_vars

InitExtent == ExtentInit /\ CasIdle /\ ResIdle /\ FoldIdle /\ EcIdle /\ RszIdle /\ GcIdle
SpecExtent == InitExtent /\ [][ExtentNext]_vars

InitAlloc == MarkInit /\ CasIdle /\ ResIdle /\ FoldIdle /\ EcIdle /\ RszIdle /\ GcIdle
SpecAlloc == InitAlloc /\ [][AllocNext]_vars

InitGen == GenInit /\ CasIdle /\ ResIdle /\ FoldIdle /\ EcIdle /\ RszIdle /\ GcIdle
SpecGen == InitGen /\ [][GenNext]_vars

InitLedger == LedgerInit /\ CasIdle /\ ResIdle /\ FoldIdle /\ EcIdle /\ RszIdle /\ GcIdle
SpecLedger == InitLedger /\ [][BucketNext]_vars

InitStripe == StripeInit /\ CasIdle /\ ResIdle /\ FoldIdle /\ RszIdle /\ GcIdle
SpecStripe == InitStripe /\ [][StripeNext]_vars

InitTrans == TransInit /\ CasIdle /\ ResIdle /\ FoldIdle /\ RszIdle /\ GcIdle
SpecTrans == InitTrans /\ [][TransNext]_vars

InitResize == RszInit /\ CasIdle /\ ResIdle /\ FoldIdle /\ MarkIdle /\ EcIdle /\ GcIdle
SpecResize == InitResize /\ [][ResizeNext]_vars

InitUsed == UsedInit /\ CasIdle /\ FoldIdle /\ MarkIdle /\ EcIdle /\ RszIdle /\ GcIdle
SpecUsed == InitUsed /\ [][UsedNext]_vars

InitCasUsage == CasInit /\ CasUsageInit /\ ResIdle /\ FoldIdle /\ EcIdle /\ RszIdle /\ GcIdle
SpecCasUsage == InitCasUsage /\ [][CasUsageNext]_vars

InitPaths == PathsInit /\ CasIdle /\ ResIdle /\ FoldIdle /\ RszIdle /\ GcIdle
SpecPaths == InitPaths /\ [][PathsNext]_vars

InitCounters == CountersInit /\ CasIdle /\ ResIdle /\ FoldIdle /\ RszIdle /\ GcIdle
SpecCounters == InitCounters /\ [][CountersNext]_vars

InitDelta == DeltaInit /\ CasIdle /\ ResIdle /\ FoldIdle /\ EcIdle /\ RszIdle /\ GcIdle
SpecDelta == InitDelta /\ [][DeltaNext]_vars

InitGcStripe == GcStripeInit /\ CasIdle /\ ResIdle /\ FoldIdle /\ RszIdle
SpecGcStripe == InitGcStripe /\ [][GcStripeNext]_vars

InitResRace == ResRaceInit /\ CasIdle /\ FoldIdle /\ MarkIdle /\ EcIdle /\ RszIdle
SpecResRace == InitResRace /\ [][ResRaceNext]_vars

InitMarkFail == MarkFailInit /\ ResIdle /\ FoldIdle /\ EcIdle /\ RszIdle /\ GcIdle
SpecMarkFail == InitMarkFail /\ [][MarkFailNext]_vars

InitDevSb == DevSbInit /\ CasIdle /\ ResIdle /\ FoldIdle /\ RszIdle /\ GcIdle
SpecDevSb == InitDevSb /\ [][DevSbNext]_vars

InitViews == ViewsInit /\ CasIdle /\ ResIdle /\ FoldIdle /\ EcIdle /\ RszIdle
SpecViews == InitViews /\ [][ViewsNext]_vars

=============================================================================
